---- MODULE Spec2Model ----
(***************************************************************************)
(* Token lifecycle and revocation engine of auth-microservice.             *)
(*                                                                         *)
(* State: the clock, the user directory (PostgreSQL table users), the      *)
(* Redis keyspaces refresh_token:* and blacklist:*, one record per         *)
(* concurrent request context and one for the message consumer.  An        *)
(* action is one store/directory call of a service method together with    *)
(* the CPU-only code that follows it up to the next call; a call that can  *)
(* fail with a transport error takes its outcome ok from BOOLEAN.          *)
(***************************************************************************)
EXTENDS Integers, FiniteSets, Sequences, TLC

VARIABLES now, users, clients, sessions, blacklist, proc, issued, ghost, cache

vars == <<now, users, clients, sessions, blacklist, proc, issued, ghost, cache>>

(* ------------------------------ bounds -------------------------------- *)
MaxTime == 2
AccessDur == 1
RefreshDur == 2
MaxCalls == 3
MaxDeliveries == 2

Reqs == {"p1", "p2"}
Consumer == "mq"
Procs == Reqs \cup {Consumer}
Citizens == {1, 2}
ClientIDs == {1, 2}
JTIs == {1, 2}
Callers == {"g1", "g2", "g3"}
ExpiryBuffer == 1
MaxRequests == 3
ScopeLists == {<<>>, <<"read">>, <<"read", "write">>}

(* ------------------------------ errors -------------------------------- *)
ErrInvalidCredentials == "InvalidCredentials"
ErrUserNotFound       == "UserNotFound"
ErrUserAlreadyExists  == "UserAlreadyExists"
ErrClientNotFound     == "ClientNotFound"
ErrInvalidClient      == "InvalidClient"
ErrInvalidToken       == "InvalidToken"
ErrExpiredToken       == "ExpiredToken"
ErrTokenRevoked       == "TokenRevoked"
ErrInvalidTokenType   == "InvalidTokenType"
ErrInternal           == "Internal"
ErrRaw                == "raw"
ErrForbidden          == "Forbidden"
ErrMissingAuthHeader  == "MissingAuthHeader"
ErrInvalidAuthHeader  == "InvalidAuthHeader"
NoErr                 == "nil"

\* The sentinel values of package domainerrors that name an outcome of an
\* operation; ErrRaw stands for any error value that is none of them (an
\* fmt.Errorf wrapper, a driver error).
Taxonomy == {ErrInvalidCredentials, ErrUserNotFound, ErrUserAlreadyExists,
             ErrClientNotFound, ErrInvalidClient, ErrInvalidToken, ErrExpiredToken,
             ErrTokenRevoked, ErrInvalidTokenType, ErrInternal,
             "Unauthorized", ErrForbidden}

TokenTypeAccess  == "access"
TokenTypeRefresh == "refresh"
TokenTypeClient  == "client_credentials"

(* --------------------------- token codec ------------------------------ *)
\* A token string is a function of its claims alone: HS256 over the JSON
\* of the claim set, with iat/nbf/exp at second precision.  sig is FALSE
\* for a string that does not parse or whose signature does not verify.
\* nbf = -1 and jti = 0 stand for an absent claim.
NoToken == [type |-> "", sub |-> 0, email |-> "", role |-> "",
            iat |-> 0, nbf |-> -1, exp |-> 0, jti |-> 0, scopes |-> <<>>,
            sig |-> FALSE]
BadToken == [NoToken EXCEPT !.type = "bad"]

generateToken(sub, email, role, tokenType, duration, t) ==
    [type |-> tokenType, sub |-> sub, email |-> email, role |-> role,
     iat |-> t, nbf |-> t, exp |-> t + duration, jti |-> 0, scopes |-> <<>>,
     sig |-> TRUE]

GenerateTokenPair(sub, email, role, t) ==
    [access  |-> generateToken(sub, email, role, TokenTypeAccess, AccessDur, t),
     refresh |-> generateToken(sub, email, role, TokenTypeRefresh, RefreshDur, t)]

NoPair == [access |-> NoToken, refresh |-> NoToken]

\* OAuth2Service.generateAccessToken: the client's client_id and scopes, a
\* random jti, no nbf.
generateAccessToken(client, jti, t) ==
    [type |-> TokenTypeClient, sub |-> client.client_id, email |-> "", role |-> "",
     iat |-> t, nbf |-> -1, exp |-> t + AccessDur, jti |-> jti,
     scopes |-> client.scopes, sig |-> TRUE]

\* What a validator hands back on success: domain.TokenClaims for a user
\* token, domain.OAuthTokenClaims for a client token (one record shape for
\* both; the fields of the other kind keep their zero values).
NoClaims == [IDCitizen |-> 0, Email |-> "", Role |-> "", Type |-> "",
             ClientID |-> 0, Scopes |-> <<>>, TokenID |-> 0,
             IssuedAt |-> 0, ExpireAt |-> 0]

\* Claims that have lost the role.
ClaimsWithoutRole(tok) ==
    [NoClaims EXCEPT !.IDCitizen = tok.sub, !.Email = tok.email, !.Type = tok.type]

\* ValidateToken: the TokenClaims built from the parsed CustomClaims.
TokenClaims(tok) ==
    [NoClaims EXCEPT !.IDCitizen = tok.sub, !.Email = tok.email,
                     !.Role = tok.role, !.Type = tok.type]

\* Client claims that have lost the scopes.
ClaimsWithoutScopes(tok) ==
    [NoClaims EXCEPT !.ClientID = tok.sub, !.TokenID = tok.jti,
                     !.IssuedAt = tok.iat, !.ExpireAt = tok.exp, !.Type = tok.type]

\* OAuth2Service.ValidateAccessToken: the OAuthTokenClaims built from the
\* parsed MapClaims.
OAuthTokenClaims(tok) ==
    [NoClaims EXCEPT !.ClientID = tok.sub, !.Scopes = tok.scopes,
                     !.TokenID = tok.jti, !.IssuedAt = tok.iat,
                     !.ExpireAt = tok.exp, !.Type = tok.type]

\* jwt.ParseWithClaims / jwt.Parse: structure and signature, then the
\* registered claims: now < exp, and now >= nbf when nbf is present.
ParseWithClaims(tok, t) == tok.sig /\ t < tok.exp /\ t >= tok.nbf

ValidateToken(tok, t) ==
    IF ~ParseWithClaims(tok, t) THEN ErrInvalidToken
    ELSE IF tok.exp < t THEN ErrExpiredToken
    ELSE NoErr

\* A validator that does not look at the type claim.
ValidateAnyType(tok, t) == ValidateToken(tok, t)

JWT_ValidateAccessToken(tok, t) ==
    IF ValidateToken(tok, t) # NoErr THEN ValidateToken(tok, t)
    ELSE IF tok.type # TokenTypeAccess THEN ErrInvalidTokenType
    ELSE NoErr

ValidateRefreshToken(tok, t) ==
    IF ValidateToken(tok, t) # NoErr THEN ValidateToken(tok, t)
    ELSE IF tok.type # TokenTypeRefresh THEN ErrInvalidTokenType
    ELSE NoErr

OAuth2_ValidateAccessToken(tok, t) ==
    IF ~ParseWithClaims(tok, t) THEN ErrInvalidToken
    ELSE IF tok.type # TokenTypeClient THEN ErrInvalidTokenType
    ELSE IF tok.exp < t THEN ErrExpiredToken
    ELSE NoErr

(* -------------------------- revocation store -------------------------- *)
\* A Redis key carries an absolute expiry and is gone once it has passed
\* (Tick removes it).  SET replaces the key.  uid is the principal key of a
\* session record: the subject the token pair was generated for, which
\* Login and RefreshToken store and DeleteUserTokens compares.
StoreRefreshToken(tok, uid, ttl) ==
    {e \in sessions : e.tok # tok} \cup {[tok |-> tok, uid |-> uid, until |-> now + ttl]}

GetRefreshToken(tok) == {e \in sessions : e.tok = tok}

DeleteRefreshToken(tok) == {e \in sessions : e.tok # tok}

\* A blacklist write that writes nothing.
BlacklistNothing(tok, ttl) == blacklist

\* A blacklist write that sets no expiry on the key.
BlacklistForever(tok, ttl) ==
    {e \in blacklist : e.tok # tok} \cup {[tok |-> tok, until |-> MaxTime + 2]}

BlacklistToken(tok, ttl) ==
    {e \in blacklist : e.tok # tok} \cup {[tok |-> tok, until |-> now + ttl]}

IsTokenBlacklisted(tok) == \E e \in blacklist : e.tok = tok

UserTokens(uid) == {e \in sessions : e.uid = uid}

(* --------------------------- user directory --------------------------- *)
UserA == [id |-> 1, email |-> "a@x", idc |-> 1, role |-> "USER", deleted |-> FALSE]
UserB == [id |-> 2, email |-> "b@x", idc |-> 2, role |-> "ADMIN", deleted |-> FALSE]

LiveUsers == {u \in users : ~u.deleted}

GetByEmail(email) == {u \in LiveUsers : u.email = email}

GetByIDCitizen(idc) == {u \in LiveUsers : u.idc = idc}

Exists(email) == GetByEmail(email) # {}

\* UPDATE users SET deleted_at = now WHERE id = $1 AND deleted_at IS NULL
Delete(id) == {IF u.id = id THEN [u EXCEPT !.deleted = TRUE] ELSE u : u \in users}

(* -------------------------- client directory -------------------------- *)
\* Rows of oauth_clients: id is the row key (a fresh uuid), client_id the
\* UNIQUE public identifier, active the soft-delete flag.
NewClientRow(clientID, scopes) ==
    [id |-> Cardinality(clients) + 1, client_id |-> clientID, active |-> TRUE,
     scopes |-> scopes]

\* SELECT ... FROM oauth_clients WHERE client_id = $1 AND active = true
OAuthClient_GetByClientID(clientID) ==
    {c \in clients : c.client_id = clientID /\ c.active}

\* UPDATE oauth_clients SET active = false WHERE id = $2
OAuthClient_Delete(id) ==
    {IF c.id = id THEN [c EXCEPT !.active = FALSE] ELSE c : c \in clients}

(* ------------------------- request contexts --------------------------- *)
\* An Authorization header after strings.Split(header, " "): n is the
\* number of parts (0 for an absent or empty header), scheme is parts[0]
\* and tok is parts[1].
NoHeader == [n |-> 0, scheme |-> "", tok |-> NoToken]

Idle == [op |-> "idle", pc |-> "idle", tok |-> NoToken, rtok |-> NoToken,
         pair |-> NoPair, ttl |-> 0, ret |-> "none",
         email |-> "", pwOk |-> FALSE, idc |-> 0, uid |-> 0,
         clientID |-> 0, secretOk |-> FALSE, valid |-> FALSE,
         scopes |-> <<>>, claims |-> NoClaims,
         route |-> "", hdr |-> NoHeader,
         conc |-> {}, flt |-> FALSE]

InFlight(q) == proc[q].pc \notin {"idle", "done"}

CanStart(p) == ~InFlight(p) /\ ghost.ncalls < MaxCalls

\* A new call on context p.  conc records which other calls overlap it.
Begin(p, op, pc) ==
    [q \in Procs |->
        IF q = p THEN [Idle EXCEPT !.op = op, !.pc = pc,
                                   !.conc = {r \in Procs \ {p} : InFlight(r)}]
        ELSE IF InFlight(q) THEN [proc[q] EXCEPT !.conc = @ \cup {p}]
        ELSE [proc[q] EXCEPT !.conc = @ \ {p}]]

\* The call returns err; of its locals only its arguments, what it returns
\* and the ghost fields stay visible.
Return(pr, p, err) ==
    [pr EXCEPT ![p] = [Idle EXCEPT !.op = pr[p].op, !.pc = "done", !.ret = err,
                                   !.tok = pr[p].tok, !.rtok = pr[p].rtok,
                                   !.email = pr[p].email, !.pwOk = pr[p].pwOk,
                                   !.idc = pr[p].idc, !.uid = pr[p].uid,
                                   !.clientID = pr[p].clientID,
                                   !.secretOk = pr[p].secretOk,
                                   !.valid = pr[p].valid,
                                   !.claims = pr[p].claims,
                                   !.pair = pr[p].pair,
                                   !.route = pr[p].route, !.hdr = pr[p].hdr,
                                   !.conc = pr[p].conc, !.flt = pr[p].flt]]

\* flt remembers that a store or directory call of this call has failed.
Outcome(pr, p, ok) == [pr EXCEPT ![p].flt = @ \/ ~ok]

\* ghost.ncalls counts the calls made so far, ghost.last is the context of
\* the latest one.
Counted(p) == [ghost EXCEPT !.ncalls = @ + 1, !.last = p]

\* ghost.gone: refresh tokens whose record a successful Logout deleted and
\* that no call has stored again; ghost.revoked: access tokens a Logout
\* has written to the blacklist.
Stored(tok, ok) == IF ok THEN [ghost EXCEPT !.gone = @ \ {tok}] ELSE ghost

\* Tokens a caller can present: what the service has returned so far, or
\* a string that is no validly signed token.
Presentable == issued \cup {BadToken}

(* ------------------------------- Login -------------------------------- *)
\* A login that tells an unknown email from a wrong password.
Login_TellsUnknown(p, email, pwOk, ok) ==
    /\ CanStart(p)
    /\ LET b == [Begin(p, "Login", "lg_store") EXCEPT ![p].email = email,
                                                       ![p].pwOk = pwOk]
           found == GetByEmail(email)
       IN  proc' = IF ~ok THEN Return(Outcome(b, p, ok), p, ErrInternal)
                   ELSE IF found = {} THEN Return(b, p, ErrUserNotFound)
                   ELSE IF ~pwOk THEN Return(b, p, ErrInvalidCredentials)
                   ELSE LET u == CHOOSE u \in found : TRUE
                        IN  [b EXCEPT ![p].pair =
                                 GenerateTokenPair(u.id, u.email, u.role, now)]
    /\ ghost' = Counted(p)
    /\ UNCHANGED <<now, users, clients, sessions, blacklist, issued, cache>>

\* GetByEmail, ComparePassword, GenerateTokenPair (auth_service.go 102-127).
\* pwOk is the outcome of user.ComparePassword(password) for the password
\* the caller sent.
Login_GetByEmail(p, email, pwOk, ok) ==
    /\ CanStart(p)
    /\ LET b == [Begin(p, "Login", "lg_store") EXCEPT ![p].email = email,
                                                       ![p].pwOk = pwOk]
           found == GetByEmail(email)
       IN  proc' = IF ~ok THEN Return(Outcome(b, p, ok), p, ErrInternal)
                   ELSE IF found = {} \/ ~pwOk THEN Return(b, p, ErrInvalidCredentials)
                   ELSE LET u == CHOOSE u \in found : TRUE
                        IN  [b EXCEPT ![p].pair =
                                 GenerateTokenPair(u.id, u.email, u.role, now)]
    /\ ghost' = Counted(p)
    /\ UNCHANGED <<now, users, clients, sessions, blacklist, issued, cache>>

\* StoreRefreshToken; a failure is logged and the pair is still returned.
Login_Store(p, ok) ==
    /\ proc[p].op = "Login" /\ proc[p].pc = "lg_store"
    /\ sessions' = IF ok THEN StoreRefreshToken(proc[p].pair.refresh,
                                                proc[p].pair.refresh.sub, RefreshDur)
                   ELSE sessions
    /\ proc' = Return(Outcome(proc, p, ok), p, NoErr)
    /\ issued' = issued \cup {proc[p].pair.access, proc[p].pair.refresh}
    /\ ghost' = Stored(proc[p].pair.refresh, ok)
    /\ UNCHANGED <<now, users, clients, blacklist, cache>>

(* ---------------------------- RefreshToken ---------------------------- *)
Refresh_Validate(p, tok) ==
    /\ CanStart(p)
    /\ tok \in Presentable
    /\ LET b == [Begin(p, "RefreshToken", "rt_blacklist") EXCEPT ![p].tok = tok]
           err == ValidateRefreshToken(tok, now)
       IN  proc' = IF err # NoErr THEN Return(b, p, err) ELSE b
    /\ ghost' = Counted(p)
    /\ UNCHANGED <<now, users, clients, sessions, blacklist, issued, cache>>

\* RefreshToken without the revocation check.
Refresh_SkipBlacklist(p, ok) ==
    /\ proc[p].op = "RefreshToken" /\ proc[p].pc = "rt_blacklist"
    /\ proc' = [Outcome(proc, p, ok) EXCEPT ![p].pc = "rt_get"]
    /\ UNCHANGED <<now, users, clients, sessions, blacklist, issued, ghost, cache>>

Refresh_IsBlacklisted(p, ok) ==
    /\ proc[p].op = "RefreshToken" /\ proc[p].pc = "rt_blacklist"
    /\ proc' = IF ~ok THEN Return(Outcome(proc, p, ok), p, ErrInternal)
               ELSE IF IsTokenBlacklisted(proc[p].tok) THEN Return(proc, p, ErrTokenRevoked)
               ELSE [proc EXCEPT ![p].pc = "rt_get"]
    /\ UNCHANGED <<now, users, clients, sessions, blacklist, issued, ghost, cache>>

\* An exchange that takes email and role from the directory and refuses a
\* deleted principal.
Refresh_GetLive(p, ok) ==
    /\ proc[p].op = "RefreshToken" /\ proc[p].pc = "rt_get"
    /\ LET t == proc[p].tok
           live == {u \in LiveUsers : u.id = t.sub}
       IN  proc' = IF ~ok \/ GetRefreshToken(t) = {} \/ live = {}
                   THEN Return(Outcome(proc, p, ok), p, ErrInvalidToken)
                   ELSE LET u == CHOOSE u \in live : TRUE
                        IN  [proc EXCEPT ![p].pc = "rt_del",
                                         ![p].pair = GenerateTokenPair(u.id, u.email, u.role, now)]
    /\ UNCHANGED <<now, users, clients, sessions, blacklist, issued, ghost, cache>>

\* GetRefreshToken: any error, redis.Nil or transport, gives InvalidToken.
\* On success the new pair is generated from the old token's claims.
Refresh_Get(p, ok) ==
    /\ proc[p].op = "RefreshToken" /\ proc[p].pc = "rt_get"
    /\ LET t == proc[p].tok
       IN  proc' = IF ~ok \/ GetRefreshToken(t) = {}
                   THEN Return(Outcome(proc, p, ok), p, ErrInvalidToken)
                   ELSE [proc EXCEPT ![p].pc = "rt_del",
                                     ![p].pair = GenerateTokenPair(t.sub, t.email, t.role, now)]
    /\ UNCHANGED <<now, users, clients, sessions, blacklist, issued, ghost, cache>>

Refresh_Delete(p, ok) ==
    /\ proc[p].op = "RefreshToken" /\ proc[p].pc = "rt_del"
    /\ sessions' = IF ok THEN DeleteRefreshToken(proc[p].tok) ELSE sessions
    /\ proc' = [Outcome(proc, p, ok) EXCEPT ![p].pc = "rt_store"]
    /\ UNCHANGED <<now, users, clients, blacklist, issued, ghost, cache>>

Refresh_Store(p, ok) ==
    /\ proc[p].op = "RefreshToken" /\ proc[p].pc = "rt_store"
    /\ sessions' = IF ok THEN StoreRefreshToken(proc[p].pair.refresh,
                                                proc[p].tok.sub, RefreshDur)
                   ELSE sessions
    /\ proc' = Return(Outcome(proc, p, ok), p, NoErr)
    /\ issued' = issued \cup {proc[p].pair.access, proc[p].pair.refresh}
    /\ ghost' = Stored(proc[p].pair.refresh, ok)
    /\ UNCHANGED <<now, users, clients, blacklist, cache>>

(* ------------------------------- Logout ------------------------------- *)
\* ValidateAccessToken, GetTokenExpiration, time.Until (auth_service.go
\* 220-231).  GetTokenExpiration parses the token again, without the
\* signing-method check.
GetTokenExpirationOk(tok, t) == ParseWithClaims(tok, t)

\* A logout that does not validate the access token.
Logout_NoValidate(p, tok, rtok) ==
    /\ CanStart(p)
    /\ tok \in Presentable
    /\ rtok \in Presentable \cup {NoToken}
    /\ proc' = [Begin(p, "Logout", "lo_blacklist") EXCEPT ![p].tok = tok,
                                                          ![p].rtok = rtok,
                                                          ![p].ttl = 1]
    /\ ghost' = Counted(p)
    /\ UNCHANGED <<now, users, clients, sessions, blacklist, issued, cache>>

\* A logout that accepts a signed, unexpired token of any type.
Logout_ValidateAnyType(p, tok, rtok) ==
    /\ CanStart(p)
    /\ tok \in Presentable
    /\ rtok \in Presentable \cup {NoToken}
    /\ LET b == [Begin(p, "Logout", "lo_blacklist") EXCEPT ![p].tok = tok,
                                                            ![p].rtok = rtok]
           err == ValidateToken(tok, now)
           ttl == IF GetTokenExpirationOk(tok, now) THEN tok.exp - now ELSE 0
       IN  proc' = IF err # NoErr THEN Return(b, p, err)
                   ELSE IF ttl > 0 THEN [b EXCEPT ![p].ttl = ttl]
                   ELSE IF rtok # NoToken THEN [b EXCEPT ![p].pc = "lo_del"]
                   ELSE Return(b, p, NoErr)
    /\ ghost' = Counted(p)
    /\ UNCHANGED <<now, users, clients, sessions, blacklist, issued, cache>>

Logout_Validate(p, tok, rtok) ==
    /\ CanStart(p)
    /\ tok \in Presentable
    /\ rtok \in Presentable \cup {NoToken}
    /\ LET b == [Begin(p, "Logout", "lo_blacklist") EXCEPT ![p].tok = tok,
                                                            ![p].rtok = rtok]
           err == JWT_ValidateAccessToken(tok, now)
           ttl == IF GetTokenExpirationOk(tok, now) THEN tok.exp - now ELSE 0
       IN  proc' = IF err # NoErr THEN Return(b, p, err)
                   ELSE IF ttl > 0 THEN [b EXCEPT ![p].ttl = ttl]
                   ELSE IF rtok # NoToken THEN [b EXCEPT ![p].pc = "lo_del"]
                   ELSE Return(b, p, NoErr)
    /\ ghost' = Counted(p)
    /\ UNCHANGED <<now, users, clients, sessions, blacklist, issued, cache>>

\* A logout that reports a failed blacklist write to the caller.
Logout_BlacklistOrFail(p, ok) ==
    /\ proc[p].op = "Logout" /\ proc[p].pc = "lo_blacklist"
    /\ blacklist' = IF ok THEN BlacklistToken(proc[p].tok, proc[p].ttl) ELSE blacklist
    /\ proc' = IF ~ok THEN Return(Outcome(proc, p, ok), p, ErrInternal)
               ELSE IF proc[p].rtok # NoToken THEN [proc EXCEPT ![p].pc = "lo_del"]
               ELSE Return(proc, p, NoErr)
    /\ ghost' = IF ok THEN [ghost EXCEPT !.revoked = @ \cup {proc[p].tok}] ELSE ghost
    /\ UNCHANGED <<now, users, clients, sessions, issued, cache>>

\* BlacklistToken; a failure is logged only.
Logout_Blacklist(p, ok) ==
    /\ proc[p].op = "Logout" /\ proc[p].pc = "lo_blacklist"
    /\ blacklist' = IF ok THEN BlacklistToken(proc[p].tok, proc[p].ttl) ELSE blacklist
    /\ proc' = IF proc[p].rtok # NoToken
               THEN [Outcome(proc, p, ok) EXCEPT ![p].pc = "lo_del"]
               ELSE Return(Outcome(proc, p, ok), p, NoErr)
    /\ ghost' = IF ok THEN [ghost EXCEPT !.revoked = @ \cup {proc[p].tok}] ELSE ghost
    /\ UNCHANGED <<now, users, clients, sessions, issued, cache>>

\* DeleteRefreshToken of the supplied refresh token; a failure is logged only.
Logout_Delete(p, ok) ==
    /\ proc[p].op = "Logout" /\ proc[p].pc = "lo_del"
    /\ sessions' = IF ok THEN DeleteRefreshToken(proc[p].rtok) ELSE sessions
    /\ proc' = Return(Outcome(proc, p, ok), p, NoErr)
    /\ ghost' = IF ok THEN [ghost EXCEPT !.gone = @ \cup {proc[p].rtok}] ELSE ghost
    /\ UNCHANGED <<now, users, clients, blacklist, issued, cache>>

(* ------------------------ ValidateAccessToken ------------------------- *)
Validate_Validate(p, tok) ==
    /\ CanStart(p)
    /\ tok \in Presentable
    /\ LET b == [Begin(p, "ValidateAccessToken", "va_blacklist") EXCEPT ![p].tok = tok]
           err == JWT_ValidateAccessToken(tok, now)
       IN  proc' = IF err # NoErr THEN Return(b, p, err) ELSE b
    /\ ghost' = Counted(p)
    /\ UNCHANGED <<now, users, clients, sessions, blacklist, issued, cache>>

\* ValidateAccessToken without the revocation check.
Validate_SkipBlacklist(p, ok) ==
    /\ proc[p].op = "ValidateAccessToken" /\ proc[p].pc = "va_blacklist"
    /\ proc' = Return(Outcome(proc, p, ok), p, NoErr)
    /\ UNCHANGED <<now, users, clients, sessions, blacklist, issued, ghost, cache>>

\* A validation that also turns away the token of a deleted principal.
Validate_LivePrincipal(p, ok) ==
    /\ proc[p].op = "ValidateAccessToken" /\ proc[p].pc = "va_blacklist"
    /\ proc' = IF ~ok THEN Return(Outcome(proc, p, ok), p, ErrInternal)
               ELSE IF IsTokenBlacklisted(proc[p].tok) THEN Return(proc, p, ErrTokenRevoked)
               ELSE IF \E u \in LiveUsers : u.id = proc[p].tok.sub THEN Return(proc, p, NoErr)
               ELSE Return(proc, p, ErrUserNotFound)
    /\ UNCHANGED <<now, users, clients, sessions, blacklist, issued, ghost, cache>>

Validate_IsBlacklisted(p, ok) ==
    /\ proc[p].op = "ValidateAccessToken" /\ proc[p].pc = "va_blacklist"
    /\ proc' = IF ~ok THEN Return(Outcome(proc, p, ok), p, ErrInternal)
               ELSE IF IsTokenBlacklisted(proc[p].tok) THEN Return(proc, p, ErrTokenRevoked)
               ELSE Return(proc, p, NoErr)
    /\ UNCHANGED <<now, users, clients, sessions, blacklist, issued, ghost, cache>>

(* ------------------------------ Register ------------------------------ *)
\* Exists(email); then NewUser when no id_citizen check is due.
Register_Exists(p, email, idc, valid, ok) ==
    /\ CanStart(p)
    /\ LET b == [Begin(p, "Register", "rg_create") EXCEPT ![p].email = email,
                                                          ![p].idc = idc,
                                                          ![p].ttl = IF valid THEN 1 ELSE 0]
       IN  proc' = IF ~ok THEN Return(Outcome(b, p, ok), p, ErrInternal)
                   ELSE IF Exists(email) THEN Return(b, p, ErrUserAlreadyExists)
                   ELSE IF idc > 0 THEN [b EXCEPT ![p].pc = "rg_idc"]
                   ELSE IF ~valid THEN Return(b, p, ErrRaw)
                   ELSE b
    /\ ghost' = Counted(p)
    /\ UNCHANGED <<now, users, clients, sessions, blacklist, issued, cache>>

\* Register without the id_citizen check.
Register_SkipIDCitizen(p, ok) ==
    /\ proc[p].op = "Register" /\ proc[p].pc = "rg_idc"
    /\ proc' = [Outcome(proc, p, ok) EXCEPT ![p].pc = "rg_create"]
    /\ UNCHANGED <<now, users, clients, sessions, blacklist, issued, ghost, cache>>

\* GetByIDCitizen(idCitizen); then NewUser.
Register_GetByIDCitizen(p, ok) ==
    /\ proc[p].op = "Register" /\ proc[p].pc = "rg_idc"
    /\ proc' = IF ~ok THEN Return(Outcome(proc, p, ok), p, ErrInternal)
               ELSE IF GetByIDCitizen(proc[p].idc) # {}
                    THEN Return(proc, p, ErrUserAlreadyExists)
               ELSE IF proc[p].ttl = 0 THEN Return(proc, p, ErrRaw)
               ELSE [proc EXCEPT ![p].pc = "rg_create"]
    /\ UNCHANGED <<now, users, clients, sessions, blacklist, issued, ghost, cache>>

\* UserRepository.Create: INSERT INTO users; email is UNIQUE over all rows,
\* soft-deleted ones included.  Every error comes back wrapped as "failed
\* to create user", which is not ErrUserAlreadyExists.
CreateErr(email, ok) ==
    IF ~ok \/ (\E u \in users : u.email = email) THEN ErrRaw ELSE NoErr

NewRow(email, idc) ==
    [id |-> Cardinality(users) + 1, email |-> email, idc |-> idc,
     role |-> "USER", deleted |-> FALSE]

Register_Create(p, ok) ==
    /\ proc[p].op = "Register" /\ proc[p].pc = "rg_create"
    /\ LET err == CreateErr(proc[p].email, ok)
       IN  /\ users' = IF err = NoErr THEN users \cup {NewRow(proc[p].email, proc[p].idc)}
                       ELSE users
           /\ proc' = IF err = NoErr THEN Return(proc, p, NoErr)
                      ELSE IF err = ErrUserAlreadyExists
                           THEN Return(Outcome(proc, p, ok), p, ErrUserAlreadyExists)
                      ELSE Return(Outcome(proc, p, ok), p, ErrInternal)
    /\ UNCHANGED <<now, clients, sessions, blacklist, issued, ghost, cache>>

(* ---------------------- user.transferred handler ---------------------- *)
\* json.Unmarshal, then GetByIDCitizen.  msg is -1 for a payload that does
\* not unmarshal, else the idCitizen it carries (0 when the field is absent).
Handler_GetByIDCitizen(msg, ok) ==
    /\ ~InFlight(Consumer)
    /\ Len(ghost.delivered) < MaxDeliveries
    /\ LET p == Consumer
           b == Begin(p, "Handler", "h_tokens")
       IN  proc' = IF msg = -1 THEN Return(b, p, NoErr)
                   ELSE IF ~ok \/ GetByIDCitizen(msg) = {}
                        THEN Return(Outcome([b EXCEPT ![p].idc = msg], p, ok), p, NoErr)
                   ELSE LET u == CHOOSE u \in GetByIDCitizen(msg) : TRUE
                        IN  [b EXCEPT ![p].idc = msg, ![p].uid = u.id]
    /\ ghost' = [ghost EXCEPT !.delivered = Append(@, msg)]
    /\ UNCHANGED <<now, users, clients, sessions, blacklist, issued, cache>>

\* A session scan that deletes nothing.
Handler_KeepTokens(D, ok) ==
    /\ proc[Consumer].op = "Handler" /\ proc[Consumer].pc = "h_tokens"
    /\ D = {}
    /\ proc' = [Outcome(proc, Consumer, ok) EXCEPT ![Consumer].pc = "h_delete"]
    /\ UNCHANGED <<now, users, clients, sessions, blacklist, issued, ghost, cache>>

\* A handler that reports a failed userRepo.Delete to the consumer.
Handler_DeleteOrFail(ok) ==
    /\ proc[Consumer].op = "Handler" /\ proc[Consumer].pc = "h_delete"
    /\ users' = IF ok THEN Delete(proc[Consumer].uid) ELSE users
    /\ proc' = Return(Outcome(proc, Consumer, ok), Consumer,
                      IF ok THEN NoErr ELSE ErrInternal)
    /\ UNCHANGED <<now, clients, sessions, blacklist, issued, ghost, cache>>

\* A handler that gives up when the session scan fails.
Handler_RevokeOrReturn(D, ok) ==
    /\ proc[Consumer].op = "Handler" /\ proc[Consumer].pc = "h_tokens"
    /\ D \subseteq UserTokens(proc[Consumer].uid)
    /\ ok => D = UserTokens(proc[Consumer].uid)
    /\ sessions' = sessions \ D
    /\ proc' = IF ok THEN [proc EXCEPT ![Consumer].pc = "h_delete"]
                     ELSE Return(Outcome(proc, Consumer, ok), Consumer, NoErr)
    /\ UNCHANGED <<now, users, clients, blacklist, issued, ghost, cache>>

\* DeleteUserTokens: SCAN refresh_token:*, GET each key, DEL the ones of the
\* principal.  A failed GET skips the key and a failed DEL is logged, so
\* with a failure any part of the principal's records is deleted.
Handler_DeleteUserTokens(D, ok) ==
    /\ proc[Consumer].op = "Handler" /\ proc[Consumer].pc = "h_tokens"
    /\ D \subseteq UserTokens(proc[Consumer].uid)
    /\ ok => D = UserTokens(proc[Consumer].uid)
    /\ sessions' = sessions \ D
    /\ proc' = [Outcome(proc, Consumer, ok) EXCEPT ![Consumer].pc = "h_delete"]
    /\ UNCHANGED <<now, users, clients, blacklist, issued, ghost, cache>>

\* userRepo.Delete; a failure is logged and the message acknowledged.
Handler_Delete(ok) ==
    /\ proc[Consumer].op = "Handler" /\ proc[Consumer].pc = "h_delete"
    /\ users' = IF ok THEN Delete(proc[Consumer].uid) ELSE users
    /\ proc' = Return(Outcome(proc, Consumer, ok), Consumer, NoErr)
    /\ UNCHANGED <<now, clients, sessions, blacklist, issued, ghost, cache>>

(* ------------------------ RevokeAllUserTokens ------------------------- *)
\* A scan that deletes every key of the pattern without looking at the owner.
Revoke_DeleteEveryKey(p, uid, D, ok) ==
    /\ CanStart(p)
    /\ D \subseteq UserTokens(uid)
    /\ sessions' = {}
    /\ LET b == [Begin(p, "RevokeAllUserTokens", "done") EXCEPT ![p].uid = uid]
       IN  proc' = Return(Outcome(b, p, ok), p, IF ok THEN NoErr ELSE ErrRaw)
    /\ ghost' = Counted(p)
    /\ UNCHANGED <<now, users, clients, blacklist, issued, cache>>

\* tokenRepo.DeleteUserTokens(userID) and the return.  D is what the scan
\* deleted: a key whose GET fails is skipped and a failed DEL is only
\* logged, so D can be any part of the principal's records; ok is FALSE
\* when the SCAN iterator itself ends with an error, the one failure that
\* DeleteUserTokens returns.
Revoke_DeleteUserTokens(p, uid, D, ok) ==
    /\ CanStart(p)
    /\ D \subseteq UserTokens(uid)
    /\ sessions' = sessions \ D
    /\ LET b == [Begin(p, "RevokeAllUserTokens", "done") EXCEPT ![p].uid = uid]
           fault == ~ok \/ D # UserTokens(uid)
       IN  proc' = Return(Outcome(b, p, ~fault), p, IF ok THEN NoErr ELSE ErrRaw)
    /\ ghost' = Counted(p)
    /\ UNCHANGED <<now, users, clients, blacklist, issued, cache>>

(* --------------------------- OAuth2 clients --------------------------- *)
\* CreateClient: GetByClientID, then NewOAuthClient.  A failed lookup is
\* taken like "no such client".  valid is FALSE when NewOAuthClient rejects
\* the arguments.
Client_GetByClientID(p, clientID, scopes, valid, ok) ==
    /\ CanStart(p)
    /\ LET b == [Begin(p, "CreateClient", "cc_create") EXCEPT ![p].clientID = clientID,
                                                              ![p].scopes = scopes,
                                                              ![p].valid = valid]
       IN  proc' = IF ok /\ OAuthClient_GetByClientID(clientID) # {}
                   THEN Return(b, p, ErrRaw)
                   ELSE IF ~valid THEN Return(Outcome(b, p, ok), p, ErrRaw)
                   ELSE Outcome(b, p, ok)
    /\ ghost' = Counted(p)
    /\ UNCHANGED <<now, users, clients, sessions, blacklist, issued, cache>>

\* An INSERT into a table without the UNIQUE constraint on client_id.
Client_CreateNoUnique(p, ok) ==
    /\ proc[p].op = "CreateClient" /\ proc[p].pc = "cc_create"
    /\ clients' = IF ok THEN clients \cup {NewClientRow(proc[p].clientID, proc[p].scopes)} ELSE clients
    /\ proc' = IF ok THEN Return(proc, p, NoErr)
               ELSE Return(Outcome(proc, p, ok), p, ErrRaw)
    /\ UNCHANGED <<now, users, sessions, blacklist, issued, ghost, cache>>

\* OAuthClientRepository.Create: INSERT INTO oauth_clients; client_id is
\* UNIQUE over all rows, deactivated ones included.
Client_Create(p, ok) ==
    /\ proc[p].op = "CreateClient" /\ proc[p].pc = "cc_create"
    /\ LET dup == \E c \in clients : c.client_id = proc[p].clientID
       IN  /\ clients' = IF ok /\ ~dup THEN clients \cup {NewClientRow(proc[p].clientID, proc[p].scopes)}
                          ELSE clients
           /\ proc' = IF ok /\ ~dup THEN Return(proc, p, NoErr)
                      ELSE Return(Outcome(proc, p, ok), p, ErrRaw)
    /\ UNCHANGED <<now, users, sessions, blacklist, issued, ghost, cache>>

\* DeleteClient = OAuthClientRepository.Delete(id).
DeleteClient(p, id, ok) ==
    /\ CanStart(p)
    /\ LET b == [Begin(p, "DeleteClient", "done") EXCEPT ![p].uid = id]
           hit == \E c \in clients : c.id = id
       IN  /\ clients' = IF ok THEN OAuthClient_Delete(id) ELSE clients
           /\ proc' = IF ~ok THEN Return(Outcome(b, p, ok), p, ErrRaw)
                      ELSE IF ~hit THEN Return(b, p, ErrClientNotFound)
                      ELSE Return(b, p, NoErr)
    /\ ghost' = Counted(p)
    /\ UNCHANGED <<now, users, sessions, blacklist, issued, cache>>

\* ClientCredentials: GetByClientID, Active, ValidateSecret,
\* generateAccessToken.  secretOk is the outcome of ValidateSecret for the
\* secret the caller sent, jti the uuid drawn for the token.
ClientCredentials(p, clientID, secretOk, jti, ok) ==
    /\ CanStart(p)
    /\ LET b == [Begin(p, "ClientCredentials", "done") EXCEPT ![p].clientID = clientID,
                                                               ![p].secretOk = secretOk]
           found == OAuthClient_GetByClientID(clientID)
           client == CHOOSE c \in found : TRUE
           tok == generateAccessToken(client, jti, now)
           granted == ok /\ found # {} /\ client.active /\ secretOk
       IN  /\ proc' = IF ~ok THEN Return(Outcome(b, p, ok), p, ErrInvalidCredentials)
                      ELSE IF found = {} THEN Return(b, p, ErrInvalidCredentials)
                      ELSE IF ~client.active THEN Return(b, p, ErrInvalidClient)
                      ELSE IF ~secretOk THEN Return(b, p, ErrInvalidCredentials)
                      ELSE Return([b EXCEPT ![p].pair.access = tok], p, NoErr)
           /\ issued' = IF granted THEN issued \cup {tok} ELSE issued
    /\ ghost' = Counted(p)
    /\ UNCHANGED <<now, users, clients, sessions, blacklist, cache>>

\* OAuth2Service.ValidateAccessToken: no store or directory call.
\* A validation that also requires the token's client to be active.
Client_ValidateActive(p, tok) ==
    /\ CanStart(p)
    /\ tok \in Presentable
    /\ LET err == IF OAuth2_ValidateAccessToken(tok, now) # NoErr
                  THEN OAuth2_ValidateAccessToken(tok, now)
                  ELSE IF \E c \in clients : c.client_id = tok.sub /\ c.active
                       THEN NoErr ELSE ErrInvalidClient
           b == [Begin(p, "OAuth2.ValidateAccessToken", "done") EXCEPT
                     ![p].tok = tok,
                     ![p].claims = IF err = NoErr THEN OAuthTokenClaims(tok)
                                   ELSE NoClaims]
       IN  proc' = Return(b, p, err)
    /\ ghost' = Counted(p)
    /\ UNCHANGED <<now, users, clients, sessions, blacklist, issued, cache>>

Client_ValidateAccessToken(p, tok) ==
    /\ CanStart(p)
    /\ tok \in Presentable
    /\ LET err == OAuth2_ValidateAccessToken(tok, now)
           b == [Begin(p, "OAuth2.ValidateAccessToken", "done") EXCEPT
                     ![p].tok = tok,
                     ![p].claims = IF err = NoErr THEN OAuthTokenClaims(tok)
                                   ELSE NoClaims]
       IN  proc' = Return(b, p, err)
    /\ ghost' = Counted(p)
    /\ UNCHANGED <<now, users, clients, sessions, blacklist, issued, cache>>

(* ------------------------- codec, stand-alone ------------------------- *)
\* The client whose tokens the codec specification generates.
CodecClient == [id |-> 1, client_id |-> 1, active |-> TRUE, scopes |-> <<"read">>]

\* The issuing functions and the three validators applied directly; the
\* context keeps the token it was handed.
Codec_Generate(p, tok) ==
    /\ proc' = [proc EXCEPT ![p] = [Idle EXCEPT !.op = "Generate", !.pc = "done",
                                                !.tok = tok, !.ret = NoErr]]
    /\ UNCHANGED <<now, users, clients, sessions, blacklist, issued, ghost, cache>>

Codec_Apply(p, op, err, claims) ==
    /\ proc[p].pc = "done"
    /\ proc' = [proc EXCEPT ![p].op = op, ![p].ret = err,
                            ![p].claims = IF err = NoErr THEN claims ELSE NoClaims]
    /\ UNCHANGED <<now, users, clients, sessions, blacklist, issued, ghost, cache>>

Codec_ValidateAccessToken(p) ==
    Codec_Apply(p, "JWT.ValidateAccessToken", JWT_ValidateAccessToken(proc[p].tok, now),
                TokenClaims(proc[p].tok))

Codec_ValidateRefreshToken(p) ==
    Codec_Apply(p, "JWT.ValidateRefreshToken", ValidateRefreshToken(proc[p].tok, now),
                TokenClaims(proc[p].tok))

Codec_ValidateClientToken(p) ==
    Codec_Apply(p, "OAuth2.ValidateAccessToken", OAuth2_ValidateAccessToken(proc[p].tok, now),
                OAuthTokenClaims(proc[p].tok))

(* ----------------------- protected HTTP routes ------------------------ *)
\* Routes behind Authenticate: logout and me; the admin routes also pass
\* RequireAdmin.
Routes == {"logout", "me", "admin"}

\* Authenticate without the check of parts[0].
Mw_AuthenticateAnyScheme(p, route, hdr) ==
    /\ CanStart(p)
    /\ LET b == [Begin(p, "Request", "mw_blacklist") EXCEPT ![p].route = route,
                                                            ![p].hdr = hdr]
           err == JWT_ValidateAccessToken(hdr.tok, now)
       IN  proc' = IF hdr.n = 0 THEN Return(b, p, ErrMissingAuthHeader)
                   ELSE IF hdr.n # 2 THEN Return(b, p, ErrInvalidAuthHeader)
                   ELSE IF err # NoErr THEN Return([b EXCEPT ![p].tok = hdr.tok], p, err)
                   ELSE [b EXCEPT ![p].tok = hdr.tok, ![p].claims = TokenClaims(hdr.tok)]
    /\ ghost' = Counted(p)
    /\ UNCHANGED <<now, users, clients, sessions, blacklist, issued, cache>>

\* Authenticate up to jwtService.ValidateAccessToken: the header, its
\* format, and the token's signature, expiry and type.
Mw_Authenticate(p, route, hdr) ==
    /\ CanStart(p)
    /\ LET b == [Begin(p, "Request", "mw_blacklist") EXCEPT ![p].route = route,
                                                            ![p].hdr = hdr]
           err == JWT_ValidateAccessToken(hdr.tok, now)
       IN  proc' = IF hdr.n = 0 THEN Return(b, p, ErrMissingAuthHeader)
                   ELSE IF hdr.n # 2 \/ hdr.scheme # "Bearer"
                        THEN Return(b, p, ErrInvalidAuthHeader)
                   ELSE IF err # NoErr THEN Return([b EXCEPT ![p].tok = hdr.tok], p, err)
                   ELSE [b EXCEPT ![p].tok = hdr.tok, ![p].claims = TokenClaims(hdr.tok)]
    /\ ghost' = Counted(p)
    /\ UNCHANGED <<now, users, clients, sessions, blacklist, issued, cache>>

\* IsTokenBlacklisted, then RequireAdmin on the admin routes; after them
\* the route's handler runs.
Mw_IsBlacklisted(p, ok) ==
    /\ proc[p].op = "Request" /\ proc[p].pc = "mw_blacklist"
    /\ proc' = IF ~ok THEN Return(Outcome(proc, p, ok), p, ErrInternal)
               ELSE IF IsTokenBlacklisted(proc[p].tok) THEN Return(proc, p, ErrTokenRevoked)
               ELSE IF proc[p].route = "admin" /\ proc[p].claims.Role # "ADMIN"
                    THEN Return(proc, p, ErrForbidden)
               ELSE [proc EXCEPT ![p].pc = "handler"]
    /\ UNCHANGED <<now, users, clients, sessions, blacklist, issued, ghost, cache>>

\* The route's handler has run and the response is written.
Mw_Handler(p) ==
    /\ proc[p].op = "Request" /\ proc[p].pc = "handler"
    /\ proc' = Return(proc, p, NoErr)
    /\ UNCHANGED <<now, users, clients, sessions, blacklist, issued, ghost, cache>>

(* ----------------- cached bearer credential (client) ------------------ *)
\* ExternalConnectivityClient: accessToken ("" is 0 here) and tokenExpiry
\* under tokenMutex.  writer is the goroutine that holds the write lock.
\* pc and result are per caller of getAccessToken; result is the token
\* returned, -1 for an error.  sent counts the token requests made, and
\* behind[g] says that another caller sent a token request while g was
\* waiting for the write lock.
Cache0 == [accessToken |-> 0, tokenExpiry |-> 0, writer |-> "",
           pc |-> [g \in Callers |-> "idle"],
           result |-> [g \in Callers |-> 0],
           behind |-> [g \in Callers |-> FALSE],
           sent |-> 0]

\* c.accessToken != "" && time.Now().Before(c.tokenExpiry)
CacheValid == cache.accessToken # 0 /\ now < cache.tokenExpiry

Frame == UNCHANGED <<users, clients, sessions, blacklist, proc, issued, ghost>>

\* RLock, the fast-path check, RUnlock: the read lock is granted while no
\* goroutine holds the write lock.
Cache_Read(g) ==
    /\ cache.pc[g] \in {"idle", "done"}
    /\ cache.sent < MaxRequests
    /\ cache.writer = ""
    /\ cache' = IF CacheValid
                THEN [cache EXCEPT !.pc[g] = "done", !.result[g] = cache.accessToken,
                                   !.behind[g] = FALSE]
                ELSE [cache EXCEPT !.pc[g] = "wlock", !.result[g] = 0,
                                   !.behind[g] = FALSE]
    /\ UNCHANGED now /\ Frame

\* A slow path that does not look at the cache again under the write lock.
Cache_LockNoRecheck(g) ==
    /\ cache.pc[g] = "wlock"
    /\ cache.writer = ""
    /\ cache' = [cache EXCEPT !.writer = g, !.pc[g] = "request"]
    /\ UNCHANGED now /\ Frame

\* Lock and the double check; the lock is released by the deferred Unlock
\* when the call returns.
Cache_Lock(g) ==
    /\ cache.pc[g] = "wlock"
    /\ cache.writer = ""
    /\ cache' = IF CacheValid
                THEN [cache EXCEPT !.pc[g] = "done", !.result[g] = cache.accessToken]
                ELSE [cache EXCEPT !.writer = g, !.pc[g] = "request"]
    /\ UNCHANGED now /\ Frame

\* The token request under the write lock.  ok is FALSE for a transport
\* error, a status other than 200 or a body that does not decode;
\* expiresIn is the expires_in of the response.  The token is cached with
\* the buffer taken off its lifetime.
Cache_Request(g, ok, expiresIn) ==
    /\ cache.pc[g] = "request"
    /\ LET n == cache.sent + 1
           waiting == [h \in Callers |-> cache.behind[h] \/ cache.pc[h] = "wlock"]
       IN  cache' = IF ok
                    THEN [cache EXCEPT !.accessToken = n,
                                       !.tokenExpiry = now + expiresIn - ExpiryBuffer,
                                       !.writer = "", !.pc[g] = "done",
                                       !.result[g] = n, !.sent = n,
                                       !.behind = waiting]
                    ELSE [cache EXCEPT !.writer = "", !.pc[g] = "done",
                                       !.result[g] = -1, !.sent = n,
                                       !.behind = waiting]
    /\ UNCHANGED now /\ Frame

\* CheckCitizenExists after getAccessToken has returned a token: the
\* request is sent with that token and answered with status.  On 401 the
\* caller takes the write lock and empties the cache; every status ends
\* the call.
Check_Response(g, status) ==
    /\ cache.pc[g] = "done" /\ cache.result[g] > 0
    /\ status = 401 => cache.writer = ""
    /\ cache' = IF status = 401
                THEN [cache EXCEPT !.accessToken = 0, !.tokenExpiry = 0,
                                   !.pc[g] = "idle", !.behind[g] = FALSE]
                ELSE [cache EXCEPT !.pc[g] = "idle", !.behind[g] = FALSE]
    /\ UNCHANGED now /\ Frame

(* ------------------------------- clock -------------------------------- *)
Tick ==
    /\ now < MaxTime
    /\ now' = now + 1
    /\ sessions' = {e \in sessions : e.until > now + 1}
    /\ blacklist' = {e \in blacklist : e.until > now + 1}
    /\ UNCHANGED <<users, clients, proc, issued, ghost, cache>>

(* --------------------------- specifications --------------------------- *)
Ghost0 == [ncalls |-> 0, last |-> "", revoked |-> {}, gone |-> {}, delivered |-> <<>>]

Init ==
    /\ now = 0
    /\ users = {UserA, UserB}
    /\ clients = {}
    /\ sessions = {}
    /\ blacklist = {}
    /\ proc = [p \in Procs |-> Idle]
    /\ issued = {}
    /\ ghost = Ghost0
    /\ cache = Cache0

\* Login and refresh rotation under concurrency and store failures.
NextRefresh ==
    \/ Tick
    \/ \E p \in Reqs : Login_GetByEmail(p, "a@x", TRUE, TRUE)
    \/ \E p \in Reqs, ok \in BOOLEAN : Login_Store(p, ok)
    \/ \E p \in Reqs, tok \in Presentable : Refresh_Validate(p, tok)
    \/ \E p \in Reqs, ok \in BOOLEAN : Refresh_IsBlacklisted(p, ok)
    \/ \E p \in Reqs, ok \in BOOLEAN : Refresh_Get(p, ok)
    \/ \E p \in Reqs, ok \in BOOLEAN : Refresh_Delete(p, ok)
    \/ \E p \in Reqs, ok \in BOOLEAN : Refresh_Store(p, ok)

SpecRefresh == Init /\ [][NextRefresh]_vars

\* Sessions: login, logout, validation and refresh of one principal.
NextSession ==
    \/ Tick
    \/ \E p \in Reqs : Login_GetByEmail(p, "a@x", TRUE, TRUE)
    \/ \E p \in Reqs, ok \in BOOLEAN : Login_Store(p, ok)
    \/ \E p \in Reqs, tok \in Presentable, rtok \in Presentable \cup {NoToken} :
           Logout_Validate(p, tok, rtok)
    \/ \E p \in Reqs, ok \in BOOLEAN : Logout_Blacklist(p, ok)
    \/ \E p \in Reqs, ok \in BOOLEAN : Logout_Delete(p, ok)
    \/ \E p \in Reqs, tok \in Presentable : Validate_Validate(p, tok)
    \/ \E p \in Reqs, ok \in BOOLEAN : Validate_IsBlacklisted(p, ok)
    \/ \E p \in Reqs, tok \in Presentable : Refresh_Validate(p, tok)
    \/ \E p \in Reqs, ok \in BOOLEAN : Refresh_IsBlacklisted(p, ok)
    \/ \E p \in Reqs, ok \in BOOLEAN : Refresh_Get(p, ok)
    \/ \E p \in Reqs, ok \in BOOLEAN : Refresh_Delete(p, ok)
    \/ \E p \in Reqs, ok \in BOOLEAN : Refresh_Store(p, ok)

Spec == Init /\ [][NextSession]_vars

\* The codec alone: tokens of the three kinds against the three validators.
NextCodec ==
    \/ Tick
    \/ \E p \in Reqs, u \in {UserA, UserB} :
           Codec_Generate(p, generateToken(u.id, u.email, u.role,
                                           TokenTypeAccess, AccessDur, now))
    \/ \E p \in Reqs, u \in {UserA, UserB} :
           Codec_Generate(p, generateToken(u.id, u.email, u.role,
                                           TokenTypeRefresh, RefreshDur, now))
    \/ \E p \in Reqs, jti \in {1, 2} : Codec_Generate(p, generateAccessToken(CodecClient, jti, now))
    \/ \E p \in Reqs : Codec_Generate(p, BadToken)
    \/ \E p \in Reqs : Codec_ValidateAccessToken(p)
    \/ \E p \in Reqs : Codec_ValidateRefreshToken(p)
    \/ \E p \in Reqs : Codec_ValidateClientToken(p)

SpecCodec == Init /\ [][NextCodec]_vars

\* RefreshToken against any contents of the Revocation Store: the store is
\* reached through the TokenRepository port, whose answers are an input of
\* the method (as in TestAuthService_RefreshToken).
StoreTokens ==
    { generateToken(u.id, u.email, u.role, ty, IF ty = TokenTypeAccess THEN AccessDur
                                                ELSE RefreshDur, 0) :
        u \in {UserA}, ty \in {TokenTypeAccess, TokenTypeRefresh} }
    \cup {generateToken(UserB.id, UserB.email, UserB.role, TokenTypeRefresh, RefreshDur, 0)}

InitStore ==
    /\ now = 0
    /\ users = {UserA, UserB}
    /\ clients = {}
    /\ sessions \in SUBSET {[tok |-> t, uid |-> t.sub, until |-> t.exp] :
                               t \in {x \in StoreTokens : x.type = TokenTypeRefresh}}
    /\ blacklist \in SUBSET {[tok |-> t, until |-> t.exp] : t \in StoreTokens}
    /\ proc = [p \in Procs |-> Idle]
    /\ issued = StoreTokens
    /\ ghost = Ghost0
    /\ cache = Cache0

NextStore ==
    \/ Tick
    \/ \E p \in Reqs, tok \in Presentable : Refresh_Validate(p, tok)
    \/ \E p \in Reqs, ok \in BOOLEAN : Refresh_IsBlacklisted(p, ok)
    \/ \E p \in Reqs, ok \in BOOLEAN : Refresh_Get(p, ok)
    \/ \E p \in Reqs, ok \in BOOLEAN : Refresh_Delete(p, ok)
    \/ \E p \in Reqs, ok \in BOOLEAN : Refresh_Store(p, ok)

SpecStore == InitStore /\ [][NextStore]_vars

\* Deprovisioning next to logins of the same and of another principal; the
\* consumer runs next to one request context.
NextDeprov ==
    \/ Tick
    \/ \E e \in {"a@x", "b@x"} : Login_GetByEmail("p1", e, TRUE, TRUE)
    \/ \E ok \in BOOLEAN : Login_Store("p1", ok)
    \/ \E msg \in {-1, 0} \cup Citizens, ok \in BOOLEAN : Handler_GetByIDCitizen(msg, ok)
    \/ \E D \in SUBSET sessions, ok \in BOOLEAN : Handler_DeleteUserTokens(D, ok)
    \/ \E ok \in BOOLEAN : Handler_Delete(ok)

SpecDeprov == Init /\ [][NextDeprov]_vars

\* Registration, concurrent, next to deprovisioning.
InitRegister ==
    /\ now = 0
    /\ users = {UserA}
    /\ clients = {}
    /\ sessions = {}
    /\ blacklist = {}
    /\ proc = [p \in Procs |-> Idle]
    /\ issued = {}
    /\ ghost = Ghost0
    /\ cache = Cache0

NextRegister ==
    \/ \E p \in Reqs, e \in {"a@x", "b@x"}, idc \in {0} \cup Citizens, ok \in BOOLEAN :
           Register_Exists(p, e, idc, TRUE, ok)
    \/ \E p \in Reqs, ok \in BOOLEAN : Register_GetByIDCitizen(p, ok)
    \/ \E p \in Reqs, ok \in BOOLEAN : Register_Create(p, ok)
    \/ \E msg \in Citizens, ok \in BOOLEAN : Handler_GetByIDCitizen(msg, ok)
    \/ \E D \in SUBSET sessions, ok \in BOOLEAN : Handler_DeleteUserTokens(D, ok)
    \/ \E ok \in BOOLEAN : Handler_Delete(ok)

SpecRegister == InitRegister /\ [][NextRegister]_vars

\* Registration into an empty directory, concurrent, next to deprovisioning.
InitEnroll ==
    /\ now = 0
    /\ users = {}
    /\ clients = {}
    /\ sessions = {}
    /\ blacklist = {}
    /\ proc = [p \in Procs |-> Idle]
    /\ issued = {}
    /\ ghost = Ghost0
    /\ cache = Cache0

NextEnroll ==
    \/ \E p \in Reqs, e \in {"a@x", "b@x"}, idc \in {0, 1}, ok \in BOOLEAN :
           Register_Exists(p, e, idc, TRUE, ok)
    \/ \E p \in Reqs, ok \in BOOLEAN : Register_GetByIDCitizen(p, ok)
    \/ \E p \in Reqs, ok \in BOOLEAN : Register_Create(p, ok)
    \/ Handler_GetByIDCitizen(1, TRUE)
    \/ \E D \in SUBSET sessions : Handler_DeleteUserTokens(D, TRUE)
    \/ Handler_Delete(TRUE)

SpecEnroll == InitEnroll /\ [][NextEnroll]_vars

\* Login with any credentials and any store outcome, followed by the use of
\* what it returned.
NextLogin ==
    \/ Tick
    \/ \E p \in Reqs, e \in {"a@x", "nobody@x"}, pwOk \in BOOLEAN, ok \in BOOLEAN :
           Login_GetByEmail(p, e, pwOk, ok)
    \/ \E p \in Reqs, ok \in BOOLEAN : Login_Store(p, ok)
    \/ \E p \in Reqs, tok \in Presentable : Validate_Validate(p, tok)
    \/ \E p \in Reqs, ok \in BOOLEAN : Validate_IsBlacklisted(p, ok)
    \/ \E p \in Reqs, tok \in Presentable : Refresh_Validate(p, tok)
    \/ \E p \in Reqs, ok \in BOOLEAN : Refresh_IsBlacklisted(p, ok)
    \/ \E p \in Reqs, ok \in BOOLEAN : Refresh_Get(p, ok)
    \/ \E p \in Reqs, ok \in BOOLEAN : Refresh_Delete(p, ok)
    \/ \E p \in Reqs, ok \in BOOLEAN : Refresh_Store(p, ok)

SpecLogin == Init /\ [][NextLogin]_vars

\* Revocation of all sessions of a principal, after logins of two principals.
NextRevoke ==
    \/ Tick
    \/ \E e \in {"a@x", "b@x"} : Login_GetByEmail("p1", e, TRUE, TRUE)
    \/ \E ok \in BOOLEAN : Login_Store("p1", ok)
    \/ \E p \in Reqs, u \in {UserA, UserB}, D \in SUBSET sessions, ok \in BOOLEAN :
           Revoke_DeleteUserTokens(p, u.id, D, ok)

SpecRevoke == Init /\ [][NextRevoke]_vars

\* DeleteUserTokens against a store that holds session records of two
\* principals and blacklist entries of their access tokens.
SweepTokens ==
    { generateToken(u.id, u.email, u.role, ty, IF ty = TokenTypeAccess THEN AccessDur
                                                ELSE RefreshDur, 0) :
        u \in {UserA, UserB}, ty \in {TokenTypeAccess, TokenTypeRefresh} }

InitSweep ==
    /\ now = 0
    /\ users = {UserA, UserB}
    /\ clients = {}
    /\ sessions \in SUBSET {[tok |-> t, uid |-> t.sub, until |-> t.exp] :
                               t \in {x \in SweepTokens : x.type = TokenTypeRefresh}}
    /\ blacklist \in SUBSET {[tok |-> t, until |-> t.exp] :
                               t \in {x \in SweepTokens : x.type = TokenTypeAccess}}
    /\ proc = [p \in Procs |-> Idle]
    /\ issued = SweepTokens
    /\ ghost = Ghost0
    /\ cache = Cache0

NextSweep ==
    \/ Tick
    \/ \E e \in {"a@x", "b@x"} : Login_GetByEmail("p1", e, TRUE, TRUE)
    \/ \E ok \in BOOLEAN : Login_Store("p1", ok)
    \/ \E u \in {UserA, UserB}, D \in SUBSET sessions, ok \in BOOLEAN :
           Revoke_DeleteUserTokens("p2", u.id, D, ok)

SpecSweep == InitSweep /\ [][NextSweep]_vars

\* Logout against the same store: an access token or a string that is no
\* token, with the refresh token of either principal or none.
NextLogout ==
    \/ Tick
    \/ \E p \in Reqs, tok \in {t \in Presentable : t.type # TokenTypeRefresh},
          rtok \in {t \in Presentable : t.type = TokenTypeRefresh} \cup {NoToken} :
           Logout_Validate(p, tok, rtok)
    \/ \E p \in Reqs, ok \in BOOLEAN : Logout_Blacklist(p, ok)
    \/ \E p \in Reqs, ok \in BOOLEAN : Logout_Delete(p, ok)

SpecLogout == InitSweep /\ [][NextLogout]_vars

\* Requests to the protected routes next to logins and logouts of a USER
\* and an ADMIN principal.
Headers ==
    {NoHeader, [n |-> 1, scheme |-> "Bearer", tok |-> NoToken]}
    \cup {[n |-> k, scheme |-> sch, tok |-> t] :
             k \in {2, 3}, sch \in {"Bearer", "Basic"}, t \in Presentable}

NextGate ==
    \/ Tick
    \/ \E e \in {"a@x", "b@x"} : Login_GetByEmail("p1", e, TRUE, TRUE)
    \/ Login_Store("p1", TRUE)
    \/ \E tok \in Presentable : Logout_Validate("p1", tok, NoToken)
    \/ \E ok \in BOOLEAN : Logout_Blacklist("p1", ok)
    \/ \E p \in Reqs, route \in Routes, hdr \in Headers : Mw_Authenticate(p, route, hdr)
    \/ \E p \in Reqs, ok \in BOOLEAN : Mw_IsBlacklisted(p, ok)
    \/ \E p \in Reqs : Mw_Handler(p)

SpecGate == Init /\ [][NextGate]_vars

\* Tokens of a principal that is deprovisioned: a login, the handler, then
\* validations and refreshes on a second context.
NextOrphan ==
    \/ Tick
    \/ Login_GetByEmail("p1", "a@x", TRUE, TRUE)
    \/ Login_Store("p1", TRUE)
    \/ Handler_GetByIDCitizen(1, TRUE)
    \/ \E D \in SUBSET sessions, ok \in BOOLEAN : Handler_DeleteUserTokens(D, ok)
    \/ Handler_Delete(TRUE)
    \/ \E tok \in Presentable : Validate_Validate("p2", tok)
    \/ \E ok \in BOOLEAN : Validate_IsBlacklisted("p2", ok)
    \/ \E tok \in Presentable : Refresh_Validate("p2", tok)
    \/ \E ok \in BOOLEAN : Refresh_IsBlacklisted("p2", ok)
    \/ \E ok \in BOOLEAN : Refresh_Get("p2", ok)
    \/ \E ok \in BOOLEAN : Refresh_Delete("p2", ok)
    \/ \E ok \in BOOLEAN : Refresh_Store("p2", ok)

SpecOrphan == Init /\ [][NextOrphan]_vars

\* The client directory: creation, deactivation and the client-credentials
\* grant, next to user logins.
NextClient ==
    \/ Tick
    \/ \E p \in Reqs, c \in ClientIDs, valid \in BOOLEAN, ok \in BOOLEAN :
           Client_GetByClientID(p, c, <<"read">>, valid, ok)
    \/ \E p \in Reqs, ok \in BOOLEAN : Client_Create(p, ok)
    \/ \E p \in Reqs, id \in ClientIDs, ok \in BOOLEAN : DeleteClient(p, id, ok)
    \/ \E p \in Reqs, c \in ClientIDs, secretOk \in BOOLEAN, jti \in JTIs, ok \in BOOLEAN :
           ClientCredentials(p, c, secretOk, jti, ok)
    \/ \E p \in Reqs, e \in {"a@x", "nobody@x"}, pwOk \in BOOLEAN, ok \in BOOLEAN :
           Login_GetByEmail(p, e, pwOk, ok)
    \/ \E p \in Reqs, ok \in BOOLEAN : Login_Store(p, ok)

SpecClient == Init /\ [][NextClient]_vars

\* Concurrent callers of getAccessToken against a token endpoint that can
\* fail and that issues tokens of different lifetimes.
NextCache ==
    \/ Tick
    \/ \E g \in Callers : Cache_Read(g)
    \/ \E g \in Callers : Cache_Lock(g)
    \/ \E g \in Callers, ok \in BOOLEAN, expiresIn \in 1..3 : Cache_Request(g, ok, expiresIn)

SpecCache == Init /\ [][NextCache]_vars

\* Concurrent CheckCitizenExists calls: the token, then the request and
\* its status.
NextExists ==
    \/ Tick
    \/ \E g \in Callers : Cache_Read(g)
    \/ \E g \in Callers : Cache_Lock(g)
    \/ \E g \in Callers, expiresIn \in 2..3 : Cache_Request(g, TRUE, expiresIn)
    \/ \E g \in Callers, status \in {200, 204, 401, 500} : Check_Response(g, status)

SpecExists == Init /\ [][NextExists]_vars

\* The client-credentials grant end to end: clients with different scope
\* lists, the grant, and validation of what it returned.
NextGrant ==
    \/ Tick
    \/ \E c \in ClientIDs, sc \in ScopeLists : Client_GetByClientID("p1", c, sc, TRUE, TRUE)
    \/ Client_Create("p1", TRUE)
    \/ \E p \in Reqs, id \in ClientIDs : DeleteClient(p, id, TRUE)
    \/ \E p \in Reqs, c \in ClientIDs, secretOk \in BOOLEAN, jti \in JTIs :
           ClientCredentials(p, c, secretOk, jti, TRUE)
    \/ \E p \in Reqs, tok \in Presentable : Client_ValidateAccessToken(p, tok)

SpecGrant == Init /\ [][NextGrant]_vars

\* A directory that holds one client: grants, deactivation and validation
\* of the tokens granted.
InitRetire ==
    /\ now = 0
    /\ users = {UserA, UserB}
    /\ clients = {CodecClient}
    /\ sessions = {}
    /\ blacklist = {}
    /\ proc = [p \in Procs |-> Idle]
    /\ issued = {}
    /\ ghost = Ghost0
    /\ cache = Cache0

NextRetire ==
    \/ Tick
    \/ \E p \in Reqs, id \in ClientIDs, ok \in BOOLEAN : DeleteClient(p, id, ok)
    \/ \E p \in Reqs, c \in ClientIDs, secretOk \in BOOLEAN, jti \in JTIs :
           ClientCredentials(p, c, secretOk, jti, TRUE)
    \/ \E p \in Reqs, tok \in Presentable : Client_ValidateAccessToken(p, tok)

SpecRetire == InitRetire /\ [][NextRetire]_vars

(* ------------------------------ properties ---------------------------- *)
\* Steps of a call on context p: the step that starts it, a step of its
\* own, the step on which it returns.
Starts(p) == ghost'.ncalls # ghost.ncalls /\ ghost'.last = p

Moves(p) == Starts(p) \/ proc'[p].pc # proc[p].pc

Returns(p) == Moves(p) /\ proc'[p].pc = "done"

\* C1: of two concurrent RefreshToken calls presenting the same refresh
\* token, neither of which met a store failure, at most one returns a token
\* pair and the other one returns InvalidToken.
C1_SingleUse ==
    \A p, q \in Reqs :
        (/\ p # q
         /\ proc[p].op = "RefreshToken" /\ proc[p].pc = "done"
         /\ proc[q].op = "RefreshToken" /\ proc[q].pc = "done"
         /\ proc[p].tok = proc[q].tok
         /\ q \in proc[p].conc /\ p \in proc[q].conc
         /\ ~proc[p].flt /\ ~proc[q].flt
         /\ proc[p].ret = NoErr)
        => proc[q].ret = ErrInvalidToken

\* C3: when a RefreshToken(R) call that met no store failure and overlapped
\* no other call returns a pair with R', the session record of R is gone
\* and a session record of R' exists.
C3_Rotation ==
    [][\A p \in Reqs :
          (/\ proc[p].op = "RefreshToken" /\ proc[p].pc = "rt_store"
           /\ Returns(p)
           /\ ~proc'[p].flt /\ proc'[p].conc = {})
          => /\ {e \in sessions' : e.tok = proc[p].tok} = {}
             /\ {e \in sessions' : e.tok = proc'[p].pair.refresh} # {}]_vars

C5_ValidateAccess ==
    [][\A p \in Reqs :
          (Moves(p) /\ proc'[p].op = "ValidateAccessToken")
          => LET t == proc'[p].tok
             IN  /\ Starts(p) =>
                      /\ (proc'[p].pc = "va_blacklist")
                            <=> (t.sig /\ t.type = TokenTypeAccess /\ now < t.exp /\ now >= t.nbf)
                      /\ proc'[p].pc = "done" =>
                            proc'[p].ret \in {ErrInvalidToken, ErrInvalidTokenType, ErrExpiredToken}
                 /\ ~Starts(p) =>
                      /\ proc[p].pc = "va_blacklist" /\ proc'[p].pc = "done"
                      /\ proc'[p].flt => proc'[p].ret = ErrInternal
                      /\ (~proc'[p].flt /\ IsTokenBlacklisted(t)) => proc'[p].ret = ErrTokenRevoked
                      /\ (~proc'[p].flt /\ ~IsTokenBlacklisted(t)) => proc'[p].ret = NoErr
                      /\ proc'[p].ret = NoErr => (t.sig /\ t.type = TokenTypeAccess)]_vars

\* One ValidateAccessToken has returned the claims of an access token, a
\* second one Internal after a failed lookup.
C5_Witness ==
    \E p, q \in Reqs :
        /\ proc[p].op = "ValidateAccessToken" /\ proc[p].pc = "done"
        /\ proc[p].ret = NoErr /\ proc[p].tok.type = TokenTypeAccess
        /\ proc[q].op = "ValidateAccessToken" /\ proc[q].pc = "done"
        /\ proc[q].ret = ErrInternal /\ proc[q].flt

\* C4: each validator accepts only tokens of its own kind, and a token that
\* parses (signature and lifetime) but is of another kind fails with
\* InvalidTokenType: a refresh or client-credentials token at
\* ValidateAccessToken, an access or client-credentials token at
\* ValidateRefreshToken, a user token at the client-credentials validator.
C4_KindSeparation ==
    [][\A p \in Reqs :
          proc'[p] # proc[p]
          => LET c == proc'[p]
                 kind == IF c.op = "JWT.ValidateAccessToken" THEN TokenTypeAccess
                         ELSE IF c.op = "JWT.ValidateRefreshToken" THEN TokenTypeRefresh
                         ELSE IF c.op = "OAuth2.ValidateAccessToken" THEN TokenTypeClient
                         ELSE ""
             IN  kind # "" =>
                   /\ c.ret = NoErr => c.tok.type = kind
                   /\ (ParseWithClaims(c.tok, now) /\ c.tok.type # kind)
                         => c.ret = ErrInvalidTokenType]_vars

\* A refresh token was refused by ValidateAccessToken and an access token
\* by the client-credentials validator, both with InvalidTokenType.
C4_Witness ==
    /\ proc["p1"].op = "JWT.ValidateAccessToken"
    /\ proc["p1"].tok.type = TokenTypeRefresh /\ proc["p1"].ret = ErrInvalidTokenType
    /\ proc["p2"].op = "OAuth2.ValidateAccessToken"
    /\ proc["p2"].tok.type = TokenTypeAccess /\ proc["p2"].ret = ErrInvalidTokenType

\* C6: RefreshToken looks the token up in the blacklist first and then in
\* the session records: a blacklisted token gives TokenRevoked, a token
\* without a session record gives InvalidToken; in both cases no pair is
\* issued and no session record or blacklist entry is created or deleted.
C6_RefreshRejects ==
    [][\A p \in Reqs :
          (Moves(p) /\ proc'[p].op = "RefreshToken")
          => LET t == proc'[p].tok
             IN  /\ Starts(p) =>
                      /\ proc'[p].pc \in {"done", "rt_blacklist"}
                      /\ UNCHANGED <<sessions, blacklist, issued>>
                 /\ (~Starts(p) /\ proc[p].pc = "rt_blacklist") =>
                      /\ UNCHANGED <<sessions, blacklist, issued>>
                      /\ (IsTokenBlacklisted(t) /\ ~proc'[p].flt)
                            => (proc'[p].pc = "done" /\ proc'[p].ret = ErrTokenRevoked)
                      /\ proc'[p].pc # "done"
                            => (proc'[p].pc = "rt_get" /\ ~IsTokenBlacklisted(t))
                 /\ (~Starts(p) /\ proc[p].pc = "rt_get") =>
                      /\ UNCHANGED <<sessions, blacklist, issued>>
                      /\ GetRefreshToken(t) = {}
                            => (proc'[p].pc = "done" /\ proc'[p].ret = ErrInvalidToken)
                      /\ proc'[p].pc # "done" => proc'[p].pc = "rt_del"
                 /\ (proc'[p].pc = "done" /\ proc'[p].ret # NoErr)
                      => proc'[p].pair = NoPair]_vars

\* One RefreshToken was refused with TokenRevoked, another one, with an
\* unexpired refresh token, with InvalidToken; the store is as it was.
C6_Witness ==
    \E p, q \in Reqs :
        /\ proc[p].op = "RefreshToken" /\ proc[p].pc = "done"
        /\ proc[p].ret = ErrTokenRevoked /\ IsTokenBlacklisted(proc[p].tok)
        /\ proc[q].op = "RefreshToken" /\ proc[q].pc = "done"
        /\ proc[q].ret = ErrInvalidToken /\ ~proc[q].flt
        /\ proc[q].tok.type = TokenTypeRefresh /\ now < proc[q].tok.exp
        /\ GetRefreshToken(proc[q].tok) = {}

\* Steps of the handler: the step on which a delivery starts it, a step of
\* its own.
HandlerStarts == ghost'.delivered # ghost.delivered

HandlerMoves == HandlerStarts \/ proc'[Consumer].pc # proc[Consumer].pc

C8_HandlerNil ==
    [][HandlerMoves
       => /\ proc'[Consumer].pc = "done" => proc'[Consumer].ret = NoErr
          /\ (~HandlerStarts /\ proc[Consumer].pc = "h_tokens")
                => proc'[Consumer].pc = "h_delete"
          /\ (~HandlerStarts /\ proc[Consumer].pc = "h_delete")
                => proc'[Consumer].pc = "done"]_vars

\* After a malformed message, a run whose session revocation failed has
\* deleted the principal and returned nil.
C8_Witness ==
    /\ Len(ghost.delivered) = 2 /\ ghost.delivered[1] = -1
    /\ proc[Consumer].pc = "done" /\ proc[Consumer].ret = NoErr
    /\ proc[Consumer].flt
    /\ \E u \in users : u.idc = ghost.delivered[2] /\ u.deleted

\* C9: of two concurrent Register calls for the same email, or the same
\* positive citizen id, that meet no directory failure, at most one
\* succeeds and the other one returns UserAlreadyExists.
C9_RegisterRace ==
    \A p, q \in Reqs :
        (/\ p # q
         /\ proc[p].op = "Register" /\ proc[p].pc = "done"
         /\ proc[q].op = "Register" /\ proc[q].pc = "done"
         /\ q \in proc[p].conc /\ p \in proc[q].conc
         /\ ~proc[p].flt /\ ~proc[q].flt
         /\ \/ proc[p].email = proc[q].email
            \/ (proc[p].idc > 0 /\ proc[p].idc = proc[q].idc)
         /\ proc[p].ret = NoErr)
        => proc[q].ret = ErrUserAlreadyExists

\* C10: Register checks the email first, then the citizen id when it is
\* positive, then writes: an existing email or a bound citizen id gives
\* UserAlreadyExists, a failed lookup gives Internal, and in these cases
\* nothing is written.
C10_RegisterConflict ==
    [][\A p \in Reqs :
          (Moves(p) /\ proc'[p].op = "Register")
          => LET c == proc'[p]
             IN  /\ Starts(p) =>
                      /\ users' = users
                      /\ c.flt => (c.pc = "done" /\ c.ret = ErrInternal)
                      /\ (~c.flt /\ Exists(c.email))
                            => (c.pc = "done" /\ c.ret = ErrUserAlreadyExists)
                      /\ (~c.flt /\ ~Exists(c.email))
                            => c.pc = (IF c.idc > 0 THEN "rg_idc" ELSE "rg_create")
                 /\ (~Starts(p) /\ proc[p].pc = "rg_idc") =>
                      /\ users' = users
                      /\ c.flt => (c.pc = "done" /\ c.ret = ErrInternal)
                      /\ (~c.flt /\ GetByIDCitizen(c.idc) # {})
                            => (c.pc = "done" /\ c.ret = ErrUserAlreadyExists)
                      /\ (~c.flt /\ GetByIDCitizen(c.idc) = {}) => c.pc = "rg_create"
                 /\ (~Starts(p) /\ proc[p].pc = "rg_create") =>
                      /\ c.pc = "done"
                      /\ users' # users => c.ret = NoErr
                 /\ (c.pc = "done" /\ c.ret = ErrUserAlreadyExists) => users' = users]_vars

\* One Register was refused for its email, another one for its citizen id;
\* the directory is as it was.
C10_Witness ==
    \E p, q \in Reqs :
        /\ proc[p].op = "Register" /\ proc[p].pc = "done" /\ ~proc[p].flt
        /\ proc[p].ret = ErrUserAlreadyExists /\ proc[p].email = "a@x"
        /\ proc[q].op = "Register" /\ proc[q].pc = "done" /\ ~proc[q].flt
        /\ proc[q].ret = ErrUserAlreadyExists /\ proc[q].email = "b@x"
        /\ proc[q].idc = 1
        /\ users = {UserA}
(* C11: a Login for an email that has no principal and a Login for an      *)
(* existing email with a wrong password both return InvalidCredentials, and *)
(* neither issues a token nor stores a session record.                      *)
C11_LoginRejects ==
    [][\A p \in Reqs :
          ( /\ Starts(p) /\ proc'[p].op = "Login" /\ ~proc'[p].flt
            /\ (GetByEmail(proc'[p].email) = {} \/ ~proc'[p].pwOk) )
          => /\ proc'[p].pc = "done"
             /\ proc'[p].ret = ErrInvalidCredentials
             /\ proc'[p].pair = NoPair
             /\ UNCHANGED <<sessions, issued>>]_vars

\* Both rejections side by side, with nothing issued and nothing stored.
C11_Witness ==
    /\ proc["p1"].op = "Login" /\ proc["p1"].pc = "done" /\ ~proc["p1"].flt
    /\ proc["p1"].email = "nobody@x" /\ proc["p1"].ret = ErrInvalidCredentials
    /\ proc["p2"].op = "Login" /\ proc["p2"].pc = "done" /\ ~proc["p2"].flt
    /\ proc["p2"].email = "a@x" /\ ~proc["p2"].pwOk
    /\ proc["p2"].ret = ErrInvalidCredentials
    /\ sessions = {} /\ issued = {}

(* C12: for a client that was created and then deactivated with           *)
(* DeleteClient, ClientCredentials with the right client_id and secret      *)
(* returns InvalidClient and issues no token.                               *)
C12_DeactivatedClient ==
    [][\A p \in Reqs :
          ( /\ Starts(p) /\ proc'[p].op = "ClientCredentials"
            /\ ~proc'[p].flt /\ proc'[p].secretOk
            /\ \E c \in clients : c.client_id = proc'[p].clientID /\ ~c.active )
          => proc'[p].ret = ErrInvalidClient /\ issued' = issued]_vars

(* C13: ClientCredentials decides in the order lookup, active flag, secret: *)
(* an unknown client_id and a wrong secret of an active client both give    *)
(* InvalidCredentials, and an inactive client gives InvalidClient whatever  *)
(* secret was sent.                                                         *)
C13_DecisionOrder ==
    [][\A p \in Reqs :
          (Starts(p) /\ proc'[p].op = "ClientCredentials" /\ ~proc'[p].flt)
          => LET rows == {c \in clients : c.client_id = proc'[p].clientID}
             IN  proc'[p].ret =
                     IF rows = {} THEN ErrInvalidCredentials
                     ELSE IF \A c \in rows : ~c.active THEN ErrInvalidClient
                     ELSE IF ~proc'[p].secretOk THEN ErrInvalidCredentials
                     ELSE NoErr]_vars

(* C14: validating a correctly signed user token after its exp has passed  *)
(* fails with ExpiredToken, not with InvalidToken.                          *)
C14_ExpiredToken ==
    [][\A p \in Reqs :
          ( /\ proc'[p] # proc[p]
            /\ proc'[p].op = "JWT.ValidateAccessToken"
            /\ proc'[p].tok.sig /\ proc'[p].tok.type = TokenTypeAccess
            /\ now > proc'[p].tok.exp )
          => proc'[p].ret = ErrExpiredToken]_vars

(* C15: when StoreRefreshToken fails during Login, Login still returns the  *)
(* pair, and a later RefreshToken with the returned refresh token fails     *)
(* with InvalidToken.                                                       *)
C15_UnstoredSession ==
    [][\A p, q \in Reqs :
          ( /\ proc[q].op = "Login" /\ proc[q].pc = "done" /\ proc[q].flt
            /\ proc[q].ret = NoErr /\ proc[q].pair # NoPair
            /\ Returns(p) /\ proc'[p].op = "RefreshToken" /\ ~proc'[p].flt
            /\ proc'[p].tok = proc[q].pair.refresh )
          => proc'[p].ret = ErrInvalidToken]_vars

(* C16: a Logout whose access token is missing, malformed, expired or not  *)
(* of type access returns an error and changes nothing: nothing is added to *)
(* the blacklist and the session record of the supplied refresh token stays.*)
C16_LogoutRejects ==
    [][\A p \in Reqs :
          ( /\ Starts(p) /\ proc'[p].op = "Logout"
            /\ \/ ~proc'[p].tok.sig
               \/ now >= proc'[p].tok.exp
               \/ proc'[p].tok.type # TokenTypeAccess )
          => /\ proc'[p].pc = "done"
             /\ proc'[p].ret \in {ErrInvalidToken, ErrExpiredToken, ErrInvalidTokenType}
             /\ UNCHANGED <<sessions, blacklist>>]_vars

\* An expired access token and a refresh token presented as access token,
\* each rejected with the supplied refresh token's record still in place.
C16_Witness ==
    /\ proc["p1"].op = "Logout" /\ proc["p1"].pc = "done"
    /\ proc["p1"].tok.sig /\ proc["p1"].tok.type = TokenTypeAccess
    /\ now >= proc["p1"].tok.exp
    /\ proc["p1"].ret = ErrInvalidToken
    /\ GetRefreshToken(proc["p1"].rtok) # {}
    /\ proc["p2"].op = "Logout" /\ proc["p2"].pc = "done"
    /\ proc["p2"].tok.type = TokenTypeRefresh
    /\ proc["p2"].ret = ErrInvalidTokenType
    /\ GetRefreshToken(proc["p2"].rtok) # {}
    /\ blacklist = {}

(* C17: Logout returns success whenever the access token validates,        *)
(* whether or not the blacklist write or the deletion of the refresh        *)
(* token's session record fails.                                            *)
C17_LogoutSucceeds ==
    [][\A p \in Reqs :
          (Moves(p) /\ proc'[p].op = "Logout")
          => IF Starts(p)
             THEN ( /\ proc'[p].tok.sig /\ now < proc'[p].tok.exp
                    /\ proc'[p].tok.type = TokenTypeAccess )
                  => (proc'[p].pc = "done" => proc'[p].ret = NoErr)
             ELSE proc'[p].pc = "done" => proc'[p].ret = NoErr]_vars

\* A Logout that returned nil although both of its writes failed: the access
\* token is not blacklisted and the refresh token's record is still there.
C17_Witness ==
    \E p \in Reqs :
        /\ proc[p].op = "Logout" /\ proc[p].pc = "done" /\ proc[p].ret = NoErr
        /\ proc[p].flt
        /\ proc[p].tok.type = TokenTypeAccess /\ now < proc[p].tok.exp
        /\ ~IsTokenBlacklisted(proc[p].tok)
        /\ proc[p].rtok.type = TokenTypeRefresh
        /\ GetRefreshToken(proc[p].rtok) # {}

C19_RevokeAll ==
    [][\A p \in Reqs :
          ( /\ Returns(p) /\ proc'[p].op = "RevokeAllUserTokens"
            /\ proc'[p].ret = NoErr /\ proc'[p].conc = {} )
          => {e \in sessions' : e.uid = proc'[p].uid} = {}]_vars

(* C20: when the directory lookup fails with a transport error or a        *)
(* timeout, Login and ClientCredentials return Internal; InvalidCredentials *)
(* is returned only when the principal or client is absent or the secret    *)
(* does not match.                                                          *)
C20_TransportError ==
    [][\A p \in Reqs :
          (Starts(p) /\ proc'[p].op \in {"Login", "ClientCredentials"}
                     /\ proc'[p].pc = "done")
          => /\ proc'[p].flt => proc'[p].ret = ErrInternal
             /\ proc'[p].ret = ErrInvalidCredentials
                   => /\ ~proc'[p].flt
                      /\ IF proc'[p].op = "Login"
                         THEN GetByEmail(proc'[p].email) = {} \/ ~proc'[p].pwOk
                         ELSE \/ OAuthClient_GetByClientID(proc'[p].clientID) = {}
                              \/ ~proc'[p].secretOk]_vars

(* C21: on RefreshToken a transport failure of the Revocation Store during  *)
(* the blacklist check or during the session-record lookup is returned as   *)
(* Internal, never as InvalidToken, and never swallowed.                     *)
C21_RefreshStoreFailure ==
    [][\A p \in Reqs :
          ( /\ Moves(p) /\ proc[p].op = "RefreshToken"
            /\ proc[p].pc \in {"rt_blacklist", "rt_get"}
            /\ ~proc[p].flt /\ proc'[p].flt )
          => proc'[p].pc = "done" /\ proc'[p].ret = ErrInternal]_vars

(* C22: every error an operation of the two coordinators returns is one of *)
(* the taxonomy values; a raw repository, store or validation error never   *)
(* reaches the caller.                                                       *)
C22_TaxonomyOnly ==
    \A p \in Reqs :
        proc[p].pc = "done" => proc[p].ret \in Taxonomy \cup {NoErr}

(* C23: CreateClient for a client_id that already has a client record      *)
(* fails and leaves the record unchanged; whatever CreateClient and          *)
(* DeleteClient calls have run, there is at most one record per client_id.   *)
C23_OneRecordPerClientID ==
    /\ [](\A c, d \in clients : c.client_id = d.client_id => c = d)
    /\ [][\A p \in Reqs :
             ( /\ Moves(p) /\ proc'[p].op = "CreateClient"
               /\ \E c \in clients : c.client_id = proc'[p].clientID )
             => /\ clients' = clients
                /\ proc'[p].pc = "done" => proc'[p].ret # NoErr]_vars

\* A CreateClient for the client_id of a deactivated client: the lookup
\* found nothing, the INSERT was refused, the one record is as it was.
C23_Witness ==
    \E p \in Reqs :
        /\ proc[p].op = "CreateClient" /\ proc[p].pc = "done"
        /\ proc[p].ret = ErrRaw /\ ~proc[p].flt /\ proc[p].valid
        /\ proc[p].conc = {} /\ ghost.last = p
        /\ \E c \in clients : c.client_id = proc[p].clientID /\ ~c.active
        /\ Cardinality({c \in clients : c.client_id = proc[p].clientID}) = 1

C26_UniquePrincipals ==
    \A u, v \in LiveUsers :
        u # v => /\ u.email # v.email
                 /\ u.idc > 0 => u.idc # v.idc

(* C27 as stated: of several callers of getAccessToken that concurrently   *)
(* find the cached credential empty or expired, exactly one sends a token    *)
(* request; a caller that waited for the write lock while another one sent   *)
(* its request returns the stored token and sends no request of its own.     *)
C27_ExactlyOneRequest ==
    \A g \in Callers : cache.pc[g] = "request" => ~cache.behind[g]

(* C27 amended: token requests are sent only by the holder of the write     *)
(* lock, so never two at a time; a caller that acquires the write lock       *)
(* sends a request exactly when the cache is then empty or expired, and      *)
(* otherwise returns the cached token without sending one.                   *)
C27_DoubleChecked ==
    /\ [](\A g \in Callers : cache.pc[g] = "request" <=> cache.writer = g)
    /\ [][\A g \in Callers :
             (cache.pc[g] = "wlock" /\ cache'.pc[g] # "wlock")
             => IF CacheValid
                THEN /\ cache'.pc[g] = "done"
                     /\ cache'.result[g] = cache.accessToken
                     /\ cache'.sent = cache.sent /\ cache'.writer = cache.writer
                ELSE cache'.pc[g] = "request" /\ cache'.writer = g]_vars

\* Three callers found the cache empty together; one request was sent and
\* the two that waited returned the token it stored.
C27_Witness ==
    /\ cache.sent = 1
    /\ \A g \in Callers : cache.pc[g] = "done" /\ cache.result[g] = cache.accessToken
    /\ Cardinality({g \in Callers : cache.behind[g]}) = 2

\* C28: in the deprovisioning handler the session revocation of the
\* principal is attempted before the principal record is deleted: the
\* handler changes the directory only in its delete step, which it reaches
\* only from the revocation step; and the delete is attempted even when the
\* revocation fails: the revocation step always leads to the delete step,
\* for the same principal.
C28_RevokeThenDelete ==
    [][HandlerMoves
       => /\ users' # users
                => /\ ~HandlerStarts /\ proc[Consumer].pc = "h_delete"
                   /\ users' = Delete(proc[Consumer].uid)
          /\ proc'[Consumer].pc = "h_delete"
                => /\ ~HandlerStarts /\ proc[Consumer].pc = "h_tokens"
                   /\ sessions' \subseteq sessions
                   /\ sessions \ sessions' \subseteq UserTokens(proc[Consumer].uid)
          /\ (~HandlerStarts /\ proc[Consumer].pc = "h_tokens")
                => /\ proc'[Consumer].pc = "h_delete"
                   /\ proc'[Consumer].uid = proc[Consumer].uid
                   /\ users' = users
          /\ (~HandlerStarts /\ proc[Consumer].pc = "h_delete")
                => users' \in {users, Delete(proc[Consumer].uid)}]_vars

\* One delivery: the revocation failed and left a session record of the
\* principal in the store, and the principal was deleted all the same.
C28_Witness ==
    /\ Len(ghost.delivered) = 1
    /\ proc[Consumer].op = "Handler" /\ proc[Consumer].pc = "done"
    /\ proc[Consumer].flt
    /\ UserTokens(proc[Consumer].uid) # {}
    /\ \E u \in users : u.id = proc[Consumer].uid /\ u.deleted

\* C29: DeleteUserTokens for a principal deletes only session records
\* whose stored owner is that principal: the session records of every
\* other principal and all blacklist entries are left unchanged.
C29_OnlyOwnRecords ==
    [][\A p \in Reqs :
          (Returns(p) /\ proc'[p].op = "RevokeAllUserTokens")
          => /\ sessions' \subseteq sessions
             /\ \A e \in sessions \ sessions' : e.uid = proc'[p].uid
             /\ {e \in sessions' : e.uid # proc'[p].uid}
                   = {e \in sessions : e.uid # proc'[p].uid}
             /\ blacklist' = blacklist]_vars

\* A record that a Login of principal 1 stored was removed by the scan for
\* principal 1 while a record of principal 2 and a blacklist entry remain.
C29_Witness ==
    /\ now = 0
    /\ proc["p1"].op = "Login" /\ proc["p1"].pc = "done" /\ proc["p1"].ret = NoErr
    /\ proc["p1"].pair.refresh.sub = 1
    /\ proc["p2"].op = "RevokeAllUserTokens" /\ proc["p2"].pc = "done"
    /\ proc["p2"].uid = 1 /\ ghost.last = "p2"
    /\ UserTokens(1) = {} /\ UserTokens(2) # {}
    /\ blacklist # {}

\* C30: each session record in the Revocation Store is keyed by a refresh
\* token that a successful Login or RefreshToken returned and that has not
\* since been exchanged, logged out, bulk-revoked or expired.  Checked on
\* the latest call when it overlapped no other call: once a RefreshToken
\* has exchanged a token for a different one, and once a Logout has been
\* given a refresh token, the store holds no record keyed by that token.
C30_OnlyLiveSessions ==
    \A p \in Reqs :
          (/\ proc[p].pc = "done" /\ proc[p].ret = NoErr
           /\ ghost.last = p /\ proc[p].conc = {})
          => /\ (proc[p].op = "RefreshToken" /\ proc[p].pair.refresh # proc[p].tok)
                   => GetRefreshToken(proc[p].tok) = {}
             /\ (proc[p].op = "Logout" /\ proc[p].rtok # NoToken)
                   => GetRefreshToken(proc[p].rtok) = {}

\* C31: a handler behind Authenticate runs only if the request carries a
\* header of the form "Bearer <token>" and ValidateAccessToken accepted
\* that token: signed, unexpired and of type access when it was validated,
\* and not blacklisted when the blacklist was read; a handler of the admin
\* routes runs only if the token's role is ADMIN.
C31_Gate ==
    /\ [](\A p \in Reqs :
            (proc[p].op = "Request" /\ proc[p].pc \in {"mw_blacklist", "handler"})
            => /\ proc[p].hdr.n = 2 /\ proc[p].hdr.scheme = "Bearer"
               /\ proc[p].hdr.tok = proc[p].tok
               /\ proc[p].tok.sig /\ proc[p].tok.type = TokenTypeAccess
               /\ proc[p].tok \in issued
               /\ (proc[p].pc = "handler" /\ proc[p].route = "admin")
                     => proc[p].tok.role = "ADMIN")
    /\ [][\A p \in Reqs :
             /\ (proc'[p].op = "Request" /\ Starts(p) /\ proc'[p].pc = "mw_blacklist")
                   => now < proc'[p].tok.exp /\ now >= proc'[p].tok.nbf
             /\ (proc'[p].pc = "handler" /\ proc[p].pc # "handler")
                   => /\ proc[p].op = "Request" /\ proc[p].pc = "mw_blacklist"
                      /\ ~IsTokenBlacklisted(proc[p].tok)
                      /\ ~proc'[p].flt]_vars

\* The admin handler runs for the ADMIN principal's token while the
\* blacklist holds another token.
C31_Witness ==
    \E p \in Reqs :
        /\ proc[p].op = "Request" /\ proc[p].pc = "handler"
        /\ proc[p].route = "admin" /\ proc[p].tok.role = "ADMIN"
        /\ blacklist # {}

\* C32: a Logout call authenticated with the access token of principal A
\* never deletes a session record that belongs to another principal,
\* whatever refresh token string it is given.
C32_OwnSessionsOnly ==
    [][\A p \in Reqs :
          (proc[p].op = "Logout" /\ Moves(p))
          => \A e \in sessions \ sessions' : e.uid = proc[p].tok.sub]_vars

\* C33: when Logout(access, R) runs concurrently with RefreshToken(R), then
\* once both calls have returned and Logout succeeded, the store holds no
\* session record for R and none for a refresh token issued in exchange
\* for R.  Checked for calls that met no store failure.
C33_LogoutBeatsRefresh ==
    \A p, q \in Reqs :
        (/\ proc[p].op = "Logout" /\ proc[p].pc = "done" /\ proc[p].ret = NoErr
         /\ proc[p].rtok # NoToken
         /\ proc[q].op = "RefreshToken" /\ proc[q].pc = "done"
         /\ proc[q].tok = proc[p].rtok
         /\ q \in proc[p].conc /\ p \in proc[q].conc
         /\ ~proc[p].flt /\ ~proc[q].flt)
        => /\ GetRefreshToken(proc[p].rtok) = {}
           /\ proc[q].ret = NoErr => GetRefreshToken(proc[q].pair.refresh) = {}

\* C34: when the deprovisioning handler for a principal runs concurrently
\* with a Login of that principal and its session scan and principal delete
\* both succeed, no session record of the principal exists once the
\* handler and the Login have returned.
C34_DeprovisionBeatsLogin ==
    (/\ proc[Consumer].op = "Handler" /\ proc[Consumer].pc = "done"
     /\ ~proc[Consumer].flt
     /\ \E u \in users : u.id = proc[Consumer].uid /\ u.deleted
     /\ proc["p1"].op = "Login" /\ proc["p1"].pc = "done"
     /\ Consumer \in proc["p1"].conc
     /\ proc["p1"].email \in {u.email : u \in {v \in users : v.id = proc[Consumer].uid}})
    => UserTokens(proc[Consumer].uid) = {}

C36_OrphanAccessToken ==
    [][/\ HandlerMoves => blacklist' = blacklist
       /\ \A p \in Reqs :
            /\ (Starts(p) /\ proc'[p].op = "ValidateAccessToken"
                 /\ proc'[p].tok.sig /\ proc'[p].tok.type = TokenTypeAccess
                 /\ now < proc'[p].tok.exp)
                  => proc'[p].pc = "va_blacklist"
            /\ (proc[p].op = "ValidateAccessToken" /\ proc[p].pc = "va_blacklist"
                 /\ proc'[p].pc = "done" /\ ~proc'[p].flt
                 /\ ~IsTokenBlacklisted(proc[p].tok))
                  => proc'[p].ret = NoErr]_vars

\* The handler deleted the principal; after it had returned, the access
\* token of the principal's login was validated successfully.
C36_Witness ==
    /\ proc[Consumer].op = "Handler" /\ proc[Consumer].pc = "done"
    /\ \E u \in users : u.id = proc[Consumer].uid /\ u.deleted
    /\ proc["p2"].op = "ValidateAccessToken" /\ proc["p2"].pc = "done"
    /\ proc["p2"].ret = NoErr /\ proc["p2"].conc = {}
    /\ proc["p2"].tok = proc["p1"].pair.access
    /\ proc["p2"].tok.sub = proc[Consumer].uid
    /\ ghost.last = "p2"

\* C37: RefreshToken never reads the User Directory: a refresh token that
\* still has a session record is exchanged even after its principal has
\* been deleted, and the new pair carries the subject, email and role of
\* the old token's claims.
C37_OrphanRefresh ==
    [][\A p \in Reqs :
          /\ (proc[p].op = "RefreshToken" /\ proc[p].pc = "rt_get" /\ Moves(p))
                => IF ~proc'[p].flt /\ GetRefreshToken(proc[p].tok) # {}
                   THEN /\ proc'[p].pc = "rt_del"
                        /\ proc'[p].pair = GenerateTokenPair(proc[p].tok.sub,
                                                proc[p].tok.email, proc[p].tok.role, now)
                   ELSE proc'[p].pc = "done" /\ proc'[p].ret = ErrInvalidToken
          /\ (proc[p].op = "RefreshToken" /\ proc[p].pc \in {"rt_del", "rt_store"}
               /\ Moves(p))
                => /\ proc'[p].pair = proc[p].pair
                   /\ proc'[p].pc = "done" => proc'[p].ret = NoErr]_vars

\* The handler deleted the principal but its scan left the session record;
\* afterwards the refresh token was exchanged for a pair with the old
\* subject, email and role.
C37_Witness ==
    /\ proc[Consumer].op = "Handler" /\ proc[Consumer].pc = "done"
    /\ \E u \in users : u.id = proc[Consumer].uid /\ u.deleted
    /\ proc["p2"].op = "RefreshToken" /\ proc["p2"].pc = "done"
    /\ proc["p2"].ret = NoErr /\ proc["p2"].conc = {}
    /\ proc["p2"].tok.sub = proc[Consumer].uid
    /\ proc["p2"].pair.access.sub = proc["p2"].tok.sub
    /\ proc["p2"].pair.access.email = proc["p2"].tok.email
    /\ proc["p2"].pair.access.role = proc["p2"].tok.role
    /\ ghost.last = "p2"

\* C38: OAuth2Service.ValidateAccessToken never reads the Client
\* Directory: a client-credentials token that was issued keeps validating
\* until its own expiry, with the client id it was issued for, also after
\* DeleteClient has deactivated its client; DeleteClient takes back no
\* token.
C38_OrphanClientToken ==
    [][\A p \in Reqs :
          /\ (Starts(p) /\ proc'[p].op = "OAuth2.ValidateAccessToken"
               /\ proc'[p].tok \in issued /\ proc'[p].tok.type = TokenTypeClient
               /\ now < proc'[p].tok.exp)
                => /\ proc'[p].ret = NoErr
                   /\ proc'[p].claims.ClientID = proc'[p].tok.sub
                   /\ proc'[p].claims.Scopes = proc'[p].tok.scopes
          /\ (Starts(p) /\ proc'[p].op = "DeleteClient")
                => issued' = issued]_vars

\* The client was deactivated by a DeleteClient that returned nil, and a
\* token granted to it before was validated successfully afterwards.
C38_Witness ==
    \E p, q \in Reqs :
        /\ proc[q].op = "DeleteClient" /\ proc[q].pc = "done" /\ proc[q].ret = NoErr
        /\ proc[p].op = "OAuth2.ValidateAccessToken" /\ proc[p].pc = "done"
        /\ proc[p].ret = NoErr /\ ghost.last = p
        /\ proc[p].tok.type = TokenTypeClient
        /\ \A c \in clients : c.client_id = proc[p].tok.sub => ~c.active
        /\ \E c \in clients : c.client_id = proc[p].tok.sub

\* C39: when CheckCitizenExists receives a 401 it clears the cached
\* credential only if the cache still holds the token that was sent in the
\* rejected request; a newer token stored by a concurrent getAccessToken
\* call is never cleared.
C39_ClearsOwnTokenOnly ==
    [][\A g \in Callers :
          (/\ cache.pc[g] = "done" /\ cache'.pc[g] = "idle"
           /\ cache.accessToken # 0 /\ cache'.accessToken = 0)
          => cache.accessToken = cache.result[g]]_vars

\* C40: the deprovisioning handler acknowledges a well-formed message
\* without attempting session revocation and principal deletion only when
\* the principal is absent from the User Directory.
C40_SkipsOnlyAbsent ==
    [][(/\ HandlerStarts /\ proc'[Consumer].pc = "done"
        /\ proc'[Consumer].idc >= 0
        /\ ghost'.delivered[Len(ghost'.delivered)] # -1)
       => GetByIDCitizen(proc'[Consumer].idc) = {}]_vars

====
